---- MODULE Spec2Model ----
(***************************************************************************)
(* Verification model of the joypad-os input drivers.                      *)
(*                                                                         *)
(* The module holds several state machines, one per driver, that share the *)
(* platform clock, the router's submit interface, the Bluetooth transport  *)
(* and the feedback service:                                               *)
(*   Spec         Wii U Pro Bluetooth driver (wii_u_pro_bt.c)              *)
(*   SpecSilent   the same driver with a controller that never answers     *)
(*   SpecWiimote  Wiimote Bluetooth driver (wiimote_bt.c)                  *)
(*   SpecSwap     extension hot-swap of a Wiimote that acknowledges nothing*)
(*   SpecOrient   orientation handling of the Wiimote driver               *)
(*   SpecButtons  button mapping of the Wiimote driver                     *)
(*   SpecSwitch2  Switch 2 BLE driver (switch2_ble.c)                      *)
(*   SpecHost     GameCube and N64 native hosts (gc_host.c, n64_host.c)    *)
(*   SpecFeedback rumble and LED feedback of the drivers                   *)
(*   SpecFeedbackFair  the same under the scheduling of the main loop      *)
(*   SpecHotkeys  hotkey service (hotkeys.c)                               *)
(*   SpecSlots    per-instance slots of a Bluetooth driver                 *)
(*   SpecGamepad  generic Bluetooth gamepad driver (bthid_gamepad.c)       *)
(*   SpecGcAdapter  GameCube adapter USB device mode (gc_adapter_mode.c)   *)
(*   SpecGcRumble   rumble of the GameCube adapter mode routed to players  *)
(*   SpecBitdoDecode  decoder of the 8BitDo Ultimate driver                *)
(*   SpecButton     user button and app tasks on the ESP32                 *)
(*   SpecSettings the settings storage with two writers of the settings    *)
(*   SpecSInput   feedback output of the SInput USB host driver             *)
(*   SpecSInputFair  the same under the scheduling of the main loop        *)
(*   SpecFlash      settings storage of the ESP32 (flash_esp32.c)          *)
(* Each specification leaves the variables of the other drivers alone.     *)
(*                                                                         *)
(* Time.  platform_time_us() is a 32 bit microsecond counter that wraps.   *)
(* The model counts time in ticks of TickMs milliseconds and lets the      *)
(* counter wrap at TimeMod ticks, so that the signed comparisons of the    *)
(* code ((int32_t)(now - t) >= 0) wrap as they do in the code.  Durations  *)
(* are rounded up to whole ticks.                                          *)
(***************************************************************************)
EXTENDS Integers, Sequences, FiniteSets, TLC

(***************************************************************************)
(* Bounds of the model                                                     *)
(***************************************************************************)
TickMs == 30000
\* the clock counter wraps at TimeMod ticks
TimeMod == 4

TimeHalf == (TimeMod + 1) \div 2

\* a duration in milliseconds, in ticks, rounded up
Ticks(ms) == (ms + TickMs - 1) \div TickMs

\* uint32_t addition, in ticks
TimeAdd(t, d) == (t + d) % TimeMod

\* (int32_t)(a - b)
SignedDiff(a, b) ==
    LET d == (a - b) % TimeMod
    IN  IF d >= TimeHalf THEN d - TimeMod ELSE d

(***************************************************************************)
(* Canonical event (core/input_event.h) and button vocabulary              *)
(***************************************************************************)
Axes == {"LX", "LY", "RX", "RY", "L2", "R2"}
StickAxes == {"LX", "LY", "RX", "RY"}
TriggerAxes == {"L2", "R2"}

\* the zero-initialised static storage of an event
ZeroEvent ==
    [buttons |-> {}, analog |-> [a \in Axes |-> 0], battery_level |-> 0]

\* init_input_event(): sticks centred, triggers released, no buttons
init_input_event ==
    [buttons |-> {},
     analog |-> [a \in Axes |-> IF a \in StickAxes THEN 128 ELSE 0],
     battery_level |-> 0]

Clamp(v, lo, hi) == IF v < lo THEN lo ELSE IF v > hi THEN hi ELSE v

\* C integer division truncates toward zero
CDiv(a, b) == IF a >= 0 THEN a \div b ELSE -((-a) \div b)

VARIABLES
    now,            \* platform_time_us(), in ticks, modulo TimeMod
    polled,         \* since the last tick the driver task has run with a free transport
    submitted,      \* events passed to router_submit_input by the last handler call
    tx,             \* commands handed to the transport by the last handler call
    player_idx,     \* find_player_index() of the connected device, -1 if none
    fb              \* feedback_state_t of player 0

(***************************************************************************)
(* Feedback service (core/services/players/feedback.h)                     *)
(***************************************************************************)
FeedbackInit ==
    [rumble_left |-> 0, rumble_right |-> 0, rumble_dirty |-> FALSE,
     led_pattern |-> 0, led_dirty |-> FALSE]

feedback_clear_dirty(f) == [f EXCEPT !.rumble_dirty = FALSE, !.led_dirty = FALSE]

\* PLAYER_LEDS[1..4]
PLAYER_LEDS(n) == IF n = 1 THEN 1 ELSE IF n = 2 THEN 2 ELSE IF n = 3 THEN 4 ELSE 8

\* router_submit_input assigns a player slot on the first event with a button down
PlayerAfterSubmit(p, evs) ==
    IF p < 0 /\ \E i \in 1..Len(evs) : evs[i].buttons # {} THEN 0 ELSE p

\* a command on the wire: report id, register address (or ""), value
Cmd(id, addr, val) == [id |-> id, addr |-> addr, val |-> val]


(***************************************************************************)
(* Wii U Pro Controller driver (wii_u_pro_bt.c)                            *)
(***************************************************************************)
WII_U_INIT_DELAY_MS == 100
WII_U_INIT_MAX_RETRIES == 5
WII_U_KEEPALIVE_MS == 30000
\* the literal 1000 * 1000 us of every "init_time = now + (1000 * 1000)"
WII_U_STEP_TIMEOUT_MS == 1000

WIIU_STICK_CENTER == 2048
WIIU_STICK_RANGE == 1200

\* report ids, in decimal
WIIU_REPORT_STATUS == 32
WIIU_REPORT_READ_DATA == 33
WIIU_REPORT_ACK == 34
WIIU_REPORT_EXT_19 == 52
WIIU_REPORT_EXT_16 == 53
WIIU_REPORT_EXT_21 == 61

WIIU_CMD_RUMBLE == 16
WIIU_CMD_LED == 17
WIIU_CMD_REPORT_MODE == 18
WIIU_CMD_STATUS_REQ == 21
WIIU_CMD_WRITE_DATA == 22
WIIU_CMD_READ_DATA == 23

\* wii_u_state_t
WII_U_STATE_IDLE == 0
WII_U_STATE_WAIT_INIT == 1
WII_U_STATE_SEND_STATUS_REQ == 2
WII_U_STATE_WAIT_STATUS == 3
WII_U_STATE_SEND_EXT_INIT1 == 4
WII_U_STATE_WAIT_EXT_INIT1_ACK == 5
WII_U_STATE_SEND_EXT_INIT2 == 6
WII_U_STATE_WAIT_EXT_INIT2_ACK == 7
WII_U_STATE_READ_EXT_TYPE == 8
WII_U_STATE_WAIT_EXT_TYPE == 9
WII_U_STATE_SEND_REPORT_MODE == 10
WII_U_STATE_WAIT_REPORT_ACK == 11
WII_U_STATE_SEND_LED == 12
WII_U_STATE_WAIT_LED_ACK == 13
WII_U_STATE_READY == 14

\* the commands of the connect sequence
WiiUCmdStatusReq == Cmd(WIIU_CMD_STATUS_REQ, "", 0)
WiiUCmdExtInit1 == Cmd(WIIU_CMD_WRITE_DATA, "A400F0", 85)
WiiUCmdExtInit2 == Cmd(WIIU_CMD_WRITE_DATA, "A400FB", 0)
WiiUCmdReadExtType == Cmd(WIIU_CMD_READ_DATA, "A400FA", 6)
WiiUCmdReportMode == Cmd(WIIU_CMD_REPORT_MODE, "", 61)
WiiUCmdLed(pattern) == Cmd(WIIU_CMD_LED, "", pattern)
WiiUCmdRumble(on) == Cmd(WIIU_CMD_RUMBLE, "", IF on THEN 1 ELSE 0)

\* wii_u_set_leds(): LED1 = 0x10, LED2 = 0x20, ...
wii_u_set_leds(player) ==
    WiiUCmdLed(IF player >= 1 /\ player <= 4 THEN 2 ^ (player + 3) ELSE 0)

\* scale_stick(): 16 bit stick value (centre 2048) to 8 bit (centre 128)
scale_stick(val) ==
    LET v == Clamp(val, WIIU_STICK_CENTER - WIIU_STICK_RANGE,
                        WIIU_STICK_CENTER + WIIU_STICK_RANGE)
        centered == v - WIIU_STICK_CENTER
        scaled == CDiv(centered * 127, WIIU_STICK_RANGE) + 128
    IN  Clamp(scaled, 1, 255)

\* the buttons of the three button bytes (bit 0 of the first byte is unused)
WiiUButtons ==
    {"R", "PLUS", "HOME", "MINUS", "L", "DOWN", "RIGHT", "UP", "LEFT",
     "ZR", "X", "A", "Y", "B", "ZL", "R3", "L3"}

WiiUMap(b) ==
    CASE b = "B" -> "B1" [] b = "A" -> "B2" [] b = "Y" -> "B3" [] b = "X" -> "B4"
      [] b = "L" -> "L1" [] b = "R" -> "R1" [] b = "ZL" -> "L2" [] b = "ZR" -> "R2"
      [] b = "MINUS" -> "S1" [] b = "PLUS" -> "S2"
      [] b = "L3" -> "L3" [] b = "R3" -> "R3" [] b = "HOME" -> "A1"
      [] b = "UP" -> "DU" [] b = "DOWN" -> "DD"
      [] b = "LEFT" -> "DL" [] b = "RIGHT" -> "DR"

\* the extension bytes of a data report: four sticks, the button bits that are
\* set on the wire (the wire is active low: a set bit is a released button),
\* and the battery field of the last byte
WiiUPads ==
    { [lx |-> 848, ly |-> 3248, rx |-> 3000, ry |-> 1000,
       raw_bits |-> WiiUButtons \ {"B", "UP"}, battery_raw |-> 2] }

\* the decoding shared by the 0x3D, 0x35 and 0x34 branches
WiiUDecode(event, pad) ==
    LET buttons_pressed == WiiUButtons \ pad.raw_bits
    IN  [event EXCEPT
            !.buttons = {WiiUMap(b) : b \in buttons_pressed},
            !.analog = [event.analog EXCEPT
                           !["LX"] = scale_stick(pad.lx),
                           !["LY"] = 255 - scale_stick(pad.ly),
                           !["RX"] = scale_stick(pad.rx),
                           !["RY"] = 255 - scale_stick(pad.ry)],
            !.battery_level = IF pad.battery_raw >= 4 THEN 100
                              ELSE pad.battery_raw * 25]

NoPad == CHOOSE p \in WiiUPads : TRUE

\* the reports the controller can deliver
WiiUReport(id, len, pad, ext, acked, error) ==
    [id |-> id, len |-> len, pad |-> pad, ext |-> ext, acked |-> acked,
     error |-> error]

WiiUReports ==
    { WiiUReport(id, 22, pad, FALSE, 0, 0) :
        id \in {WIIU_REPORT_EXT_21, WIIU_REPORT_EXT_16, WIIU_REPORT_EXT_19},
        pad \in WiiUPads }
    \cup { WiiUReport(WIIU_REPORT_EXT_21, 21, NoPad, FALSE, 0, 0) }
    \cup { WiiUReport(WIIU_REPORT_STATUS, 7, NoPad, ext, 0, 0) : ext \in BOOLEAN }
    \cup { WiiUReport(WIIU_REPORT_STATUS, 6, NoPad, TRUE, 0, 0) }
    \cup { WiiUReport(WIIU_REPORT_ACK, 5, NoPad, FALSE, acked, 0) :
        acked \in {WIIU_CMD_WRITE_DATA, WIIU_CMD_REPORT_MODE, WIIU_CMD_LED} }
    \cup { WiiUReport(WIIU_REPORT_ACK, 5, NoPad, FALSE, WIIU_CMD_LED, 3) }
    \cup { WiiUReport(WIIU_REPORT_READ_DATA, 12, NoPad, FALSE, 0, 0),
           WiiUReport(WIIU_REPORT_READ_DATA, 7, NoPad, FALSE, 0, 7) }
    \cup { WiiUReport(0, 0, NoPad, FALSE, 0, 0) }

VARIABLES
    wii_u_data,     \* wii_u_data[0]: the per-instance state of the driver
    wii_u_device,   \* device->driver_data is set: a controller is connected
    wii_u_hist      \* what has happened on the current connection

WiiUDataInit ==
    [event |-> ZeroEvent, initialized |-> FALSE, player_led |-> 0,
     rumble_on |-> FALSE, state |-> WII_U_STATE_IDLE, init_time |-> 0,
     init_retries |-> 0, last_keepalive |-> 0, last_report |-> 0]

\* The history of the current connection.  "happy" says that the connection
\* has so far followed the documented connect flow: no waiting step has timed
\* out, the status report taken in WAIT_STATUS had the extension bit set, and
\* the only data reports were 0x3D reports after report mode 0x3D was set.  The record of the flow
\* (steps, acked, data_seen) is kept only as long as the connection is happy.
WiiUHistInit ==
    [happy |-> TRUE,
     steps |-> << >>,         \* commands sent before READY, repeats collapsed
     acked |-> {},            \* those of them that have been answered
     data_seen |-> FALSE,     \* a 0x3D report has been processed
     last |-> Cmd(0, "", 0),  \* the last command sent before READY
     attempts |-> 0,          \* times it has been sent in a row, capped
     since_send |-> 0,        \* ticks since the last command of a step, capped
     since_ka |-> 0,          \* ticks since READY or the last keep-alive, capped
     ka_sent |-> FALSE]       \* a keep-alive has been sent in this READY period

WiiUHistNorm(h) ==
    IF h.happy THEN h
    ELSE [h EXCEPT !.steps = << >>, !.acked = {}, !.data_seen = FALSE]

timeVars == <<now, polled>>
ioVars == <<submitted, tx>>
fbVars == <<player_idx, fb>>
wiiuVars == <<wii_u_data, wii_u_device, wii_u_hist>>

\* what platform_time_us() can return during tick t, as far as a test against 0
\* can tell: 0 is returned in the first microsecond of tick 0 only
Stamps(t) == IF t = 0 THEN {0, 1} ELSE {1}

Min(a, b) == IF a < b THEN a ELSE b

\* fault variant: the first data report restarts the LED step from READY too
WiiUFirstDataFromReady(wii) ==
    IF wii.last_report = 0
    THEN IF wii.state # WII_U_STATE_WAIT_LED_ACK THEN WII_U_STATE_SEND_LED
         ELSE WII_U_STATE_READY
    ELSE wii.state

\* lines 310-323 and 388-400: the first data report of a connection
WiiUFirstData(wii) ==
    IF wii.last_report = 0
    THEN IF wii.state < WII_U_STATE_WAIT_LED_ACK THEN WII_U_STATE_SEND_LED
         ELSE IF wii.state = WII_U_STATE_WAIT_LED_ACK THEN WII_U_STATE_READY
         ELSE wii.state
    ELSE wii.state

\* fault variant: the ACK of the first extension write skips the second write
wii_u_ack_next_skip(state, acked_report) ==
    IF state = WII_U_STATE_WAIT_EXT_INIT1_ACK /\ acked_report = WIIU_CMD_WRITE_DATA
    THEN WII_U_STATE_READ_EXT_TYPE
    ELSE IF state = WII_U_STATE_WAIT_EXT_INIT2_ACK /\ acked_report = WIIU_CMD_WRITE_DATA
    THEN WII_U_STATE_READ_EXT_TYPE
    ELSE IF state = WII_U_STATE_WAIT_REPORT_ACK /\ acked_report = WIIU_CMD_REPORT_MODE
    THEN WII_U_STATE_SEND_LED
    ELSE IF state = WII_U_STATE_WAIT_LED_ACK /\ acked_report = WIIU_CMD_LED
    THEN WII_U_STATE_READY
    ELSE state

\* lines 541-556: the state after an ACK report without error
wii_u_ack_next(state, acked_report) ==
    IF state = WII_U_STATE_WAIT_EXT_INIT1_ACK /\ acked_report = WIIU_CMD_WRITE_DATA
    THEN WII_U_STATE_SEND_EXT_INIT2
    ELSE IF state = WII_U_STATE_WAIT_EXT_INIT2_ACK /\ acked_report = WIIU_CMD_WRITE_DATA
    THEN WII_U_STATE_READ_EXT_TYPE
    ELSE IF state = WII_U_STATE_WAIT_REPORT_ACK /\ acked_report = WIIU_CMD_REPORT_MODE
    THEN WII_U_STATE_SEND_LED
    ELSE IF state = WII_U_STATE_WAIT_LED_ACK /\ acked_report = WIIU_CMD_LED
    THEN WII_U_STATE_READY
    ELSE state

WiiUIsData(r) ==
    /\ r.id \in {WIIU_REPORT_EXT_21, WIIU_REPORT_EXT_16, WIIU_REPORT_EXT_19}
    /\ r.len >= 22

\* wii_u_process_report(): the driver data after report r at time t
WiiUAfterReport(wii, r, t, stamp) ==
    IF r.len < 1 THEN wii
    ELSE IF r.id \in {WIIU_REPORT_EXT_21, WIIU_REPORT_EXT_16} /\ r.len >= 22
    THEN [wii EXCEPT !.state = WiiUFirstData(wii),
                     !.last_report = stamp,
                     !.event = WiiUDecode(wii.event, r.pad)]
    ELSE IF r.id = WIIU_REPORT_EXT_19 /\ r.len >= 22
    THEN [wii EXCEPT !.state = WII_U_STATE_READY,
                     !.event = WiiUDecode(wii.event, r.pad)]
    ELSE IF r.id = WIIU_REPORT_STATUS /\ r.len >= 7
    THEN IF wii.state = WII_U_STATE_WAIT_STATUS
         THEN [wii EXCEPT !.state = IF r.ext THEN WII_U_STATE_SEND_EXT_INIT1
                                    ELSE WII_U_STATE_SEND_LED]
         ELSE wii
    ELSE IF r.id = WIIU_REPORT_ACK /\ r.len >= 5
    THEN IF r.error = 0
         THEN LET next == wii_u_ack_next(wii.state, r.acked)
              IN  IF wii.state = WII_U_STATE_WAIT_LED_ACK /\ next = WII_U_STATE_READY
                  THEN [wii EXCEPT !.state = next, !.last_keepalive = t,
                                   !.last_report = 0]
                  ELSE [wii EXCEPT !.state = next]
         ELSE wii
    ELSE IF r.id = WIIU_REPORT_READ_DATA /\ r.len >= 7
    THEN IF wii.state = WII_U_STATE_WAIT_EXT_TYPE
         THEN [wii EXCEPT !.state = WII_U_STATE_SEND_REPORT_MODE]
         ELSE wii
    ELSE wii

\* fault variant: a step that times out is retried for ever
wii_u_timeout_no_giveup(wii, retry, next) ==
    [wii EXCEPT !.state = retry]

\* fault variant: one retry more than WII_U_INIT_MAX_RETRIES allows
wii_u_timeout_one_more(wii, retry, next) ==
    LET retries == (wii.init_retries + 1) % 256
    IN  IF retries <= WII_U_INIT_MAX_RETRIES
        THEN [wii EXCEPT !.init_retries = retries, !.state = retry]
        ELSE [wii EXCEPT !.init_retries = 0, !.state = next]

\* lines 617-624 (and the same code of every waiting step): the timeout
\* branch of a waiting step retries, or gives the step up
wii_u_timeout(wii, retry, next) ==
    LET retries == (wii.init_retries + 1) % 256
    IN  IF retries < WII_U_INIT_MAX_RETRIES
        THEN [wii EXCEPT !.init_retries = retries, !.state = retry]
        ELSE [wii EXCEPT !.init_retries = 0, !.state = next]

\* a sending step: the command goes out when the transport can send
WiiUSend(wii, t, can_send, cmd, wait) ==
    IF can_send
    THEN [wii |-> [wii EXCEPT !.state = wait,
                       !.init_time = TimeAdd(t, Ticks(WII_U_STEP_TIMEOUT_MS))],
          tx |-> <<cmd>>]
    ELSE [wii |-> wii, tx |-> << >>]

WiiUWait(wii, t, retry, next) ==
    [wii |-> IF SignedDiff(t, wii.init_time) >= 0
             THEN wii_u_timeout(wii, retry, next) ELSE wii,
     tx |-> << >>]

\* the connect steps of wii_u_task(): lines 600-751
WiiUConnectStep(wii, t, can_send) ==
    CASE wii.state = WII_U_STATE_WAIT_INIT ->
           [wii |-> IF SignedDiff(t, wii.init_time) >= 0
                    THEN [wii EXCEPT !.state = WII_U_STATE_SEND_STATUS_REQ]
                    ELSE wii,
            tx |-> << >>]
      [] wii.state = WII_U_STATE_SEND_STATUS_REQ ->
           WiiUSend(wii, t, can_send, WiiUCmdStatusReq, WII_U_STATE_WAIT_STATUS)
      [] wii.state = WII_U_STATE_WAIT_STATUS ->
           WiiUWait(wii, t, WII_U_STATE_SEND_STATUS_REQ, WII_U_STATE_SEND_EXT_INIT1)
      [] wii.state = WII_U_STATE_SEND_EXT_INIT1 ->
           WiiUSend(wii, t, can_send, WiiUCmdExtInit1, WII_U_STATE_WAIT_EXT_INIT1_ACK)
      [] wii.state = WII_U_STATE_WAIT_EXT_INIT1_ACK ->
           WiiUWait(wii, t, WII_U_STATE_SEND_EXT_INIT1, WII_U_STATE_SEND_EXT_INIT2)
      [] wii.state = WII_U_STATE_SEND_EXT_INIT2 ->
           WiiUSend(wii, t, can_send, WiiUCmdExtInit2, WII_U_STATE_WAIT_EXT_INIT2_ACK)
      [] wii.state = WII_U_STATE_WAIT_EXT_INIT2_ACK ->
           WiiUWait(wii, t, WII_U_STATE_SEND_EXT_INIT2, WII_U_STATE_READ_EXT_TYPE)
      [] wii.state = WII_U_STATE_READ_EXT_TYPE ->
           WiiUSend(wii, t, can_send, WiiUCmdReadExtType, WII_U_STATE_WAIT_EXT_TYPE)
      [] wii.state = WII_U_STATE_WAIT_EXT_TYPE ->
           WiiUWait(wii, t, WII_U_STATE_READ_EXT_TYPE, WII_U_STATE_SEND_REPORT_MODE)
      [] wii.state = WII_U_STATE_SEND_REPORT_MODE ->
           WiiUSend(wii, t, can_send, WiiUCmdReportMode, WII_U_STATE_WAIT_REPORT_ACK)
      [] wii.state = WII_U_STATE_WAIT_REPORT_ACK ->
           WiiUWait(wii, t, WII_U_STATE_SEND_REPORT_MODE, WII_U_STATE_SEND_LED)
      [] wii.state = WII_U_STATE_SEND_LED ->
           LET r == WiiUSend(wii, t, can_send, wii_u_set_leds(1),
                             WII_U_STATE_WAIT_LED_ACK)
           IN  [r EXCEPT !.wii.player_led = IF can_send THEN 16 ELSE @]
      [] wii.state = WII_U_STATE_WAIT_LED_ACK ->
           LET r == WiiUWait(wii, t, WII_U_STATE_SEND_LED, WII_U_STATE_READY)
           IN  IF r.wii.state = WII_U_STATE_READY
               THEN [r EXCEPT !.wii.last_keepalive = t, !.wii.last_report = 0]
               ELSE r
      [] OTHER -> [wii |-> wii, tx |-> << >>]

\* the READY branch of wii_u_task(): lines 753-805.  cs[1], cs[2], cs[3] are
\* the answers of the three btstack_wiimote_can_send() calls of the branch.
WiiUReadyStep(wii, t, cs, f, pidx) ==
    LET rumble_wanted == f.rumble_left > 0 \/ f.rumble_right > 0
        do_rumble == pidx >= 0 /\ f.rumble_dirty /\ rumble_wanted # wii.rumble_on
                     /\ cs[1]
        led == IF f.led_pattern # 0 THEN (f.led_pattern * 16) % 256
               ELSE (PLAYER_LEDS(pidx + 1) * 16) % 256
        do_led == pidx >= 0 /\ (f.led_dirty \/ led # wii.player_led) /\ cs[2]
        do_ka == SignedDiff(t, wii.last_keepalive) >= Ticks(WII_U_KEEPALIVE_MS)
                 /\ cs[3]
    IN  [wii |-> [wii EXCEPT
                     !.rumble_on = IF do_rumble THEN rumble_wanted ELSE @,
                     !.player_led = IF do_led THEN led ELSE @,
                     !.last_keepalive = IF do_ka THEN t ELSE @],
         tx |-> (IF do_rumble THEN <<WiiUCmdRumble(rumble_wanted)>> ELSE << >>)
                \o (IF do_led THEN <<WiiUCmdLed(led)>> ELSE << >>)
                \o (IF do_ka THEN <<WiiUCmdStatusReq>> ELSE << >>),
         fb |-> IF pidx >= 0 /\ (f.rumble_dirty \/ f.led_dirty)
                THEN feedback_clear_dirty(f) ELSE f,
         keepalive |-> do_ka]


\* the report that answers a command of the connect sequence
WiiUAnswers(r, cmd) ==
    \/ cmd.id = WIIU_CMD_STATUS_REQ /\ r.id = WIIU_REPORT_STATUS /\ r.len >= 7
    \/ cmd.id = WIIU_CMD_READ_DATA /\ r.id = WIIU_REPORT_READ_DATA /\ r.len >= 12
       /\ r.error = 0
    \/ cmd.id \in {WIIU_CMD_WRITE_DATA, WIIU_CMD_REPORT_MODE, WIIU_CMD_LED}
       /\ r.id = WIIU_REPORT_ACK /\ r.len >= 5 /\ r.acked = cmd.id /\ r.error = 0

\* the commands sent so far, a command repeated in a row counted once
WiiUSteps(steps, out) ==
    IF out = << >> \/ (steps # << >> /\ steps[Len(steps)] = out[1])
    THEN steps ELSE steps \o out

WiiUWaitStates ==
    {WII_U_STATE_WAIT_STATUS, WII_U_STATE_WAIT_EXT_INIT1_ACK,
     WII_U_STATE_WAIT_EXT_INIT2_ACK, WII_U_STATE_WAIT_EXT_TYPE,
     WII_U_STATE_WAIT_REPORT_ACK, WII_U_STATE_WAIT_LED_ACK}

\* the history after the driver moved from state "from" to state "to"
WiiUEnterReady(h, from, to) ==
    IF to = WII_U_STATE_READY /\ from # WII_U_STATE_READY
    THEN [h EXCEPT !.last = Cmd(0, "", 0), !.attempts = 0, !.since_send = 0,
                   !.since_ka = 0, !.ka_sent = FALSE]
    ELSE h

(***************************************************************************)
(* Wiimote driver (wiimote_bt.c)                                           *)
(***************************************************************************)
WIIMOTE_INIT_DELAY_MS == 100
WIIMOTE_INIT_MAX_RETRIES == 5
WIIMOTE_KEEPALIVE_MS == 30000
\* the literal 1000000 us of every "init_time = now + 1000000"
WIIMOTE_STEP_TIMEOUT_MS == 1000

\* core button bits of raw_buttons
WII_BTN_LEFT == 1
WII_BTN_RIGHT == 2
WII_BTN_DOWN == 4
WII_BTN_UP == 8
WII_BTN_PLUS == 16
WII_BTN_TWO == 256
WII_BTN_ONE == 512
WII_BTN_B == 1024
WII_BTN_A == 2048
WII_BTN_MINUS == 4096
WII_BTN_HOME == 32768

\* Nunchuk button bits
WII_BTN_Z == 1
WII_BTN_C == 2

\* Classic Controller button bits
WII_CC_BTN_RT == 2
WII_CC_BTN_PLUS == 4
WII_CC_BTN_HOME == 8
WII_CC_BTN_MINUS == 16
WII_CC_BTN_LT == 32
WII_CC_BTN_DOWN == 64
WII_CC_BTN_RIGHT == 128
WII_CC_BTN_UP == 256
WII_CC_BTN_LEFT == 512
WII_CC_BTN_ZR == 1024
WII_CC_BTN_X == 2048
WII_CC_BTN_A == 4096
WII_CC_BTN_Y == 8192
WII_CC_BTN_B == 16384
WII_CC_BTN_ZL == 32768

\* Guitar button bits
GH_BTN_STRUM_DOWN == 64
GH_BTN_MINUS == 16
GH_BTN_PLUS == 4
GH_BTN_STRUM_UP == 256
GH_BTN_GREEN == 4096
GH_BTN_RED == 16384
GH_BTN_YELLOW == 2048
GH_BTN_BLUE == 8192
GH_BTN_ORANGE == 32768

\* wiimote_ext_type_t
WII_EXT_NONE == 0
WII_EXT_NUNCHUK == 1
WII_EXT_CLASSIC == 2
WII_EXT_CLASSIC_MINI == 3
WII_EXT_GUITAR == 4

\* report ids, in decimal
WII_REPORT_STATUS == 32
WII_REPORT_READ_DATA == 33
WII_REPORT_ACK == 34
WII_REPORT_BUTTONS == 48
WII_REPORT_BUTTONS_ACC == 49
WII_REPORT_BUTTONS_EXT8 == 50
WII_REPORT_BUTTONS_ACC_IR == 51
WII_REPORT_BUTTONS_EXT19 == 52
WII_REPORT_BUTTONS_ACC_EXT16 == 53
WII_REPORT_BUTTONS_IR_EXT9 == 54
WII_REPORT_BUTTONS_ACC_IR_EXT6 == 55

WII_ACCEL_CENTER == 128
WII_ACCEL_THRESH_ON == 20
WII_ACCEL_THRESH_OFF == 12

WII_CMD_LED == 17
WII_CMD_REPORT_MODE == 18
WII_CMD_STATUS_REQ == 21
WII_CMD_WRITE_DATA == 22
WII_CMD_READ_DATA == 23

\* wiimote_state_t
WII_STATE_IDLE == 0
WII_STATE_WAIT_INIT == 1
WII_STATE_SEND_STATUS_REQ == 2
WII_STATE_WAIT_STATUS == 3
WII_STATE_SEND_EXT_INIT1 == 4
WII_STATE_WAIT_EXT_INIT1_ACK == 5
WII_STATE_SEND_EXT_INIT2 == 6
WII_STATE_WAIT_EXT_INIT2_ACK == 7
WII_STATE_READ_EXT_TYPE == 8
WII_STATE_WAIT_EXT_TYPE == 9
WII_STATE_SEND_REPORT_MODE == 10
WII_STATE_WAIT_REPORT_ACK == 11
WII_STATE_SEND_LED == 12
WII_STATE_WAIT_LED_ACK == 13
WII_STATE_READY == 14

\* wiimote_orient_t
WII_ORIENT_HORIZONTAL == 0
WII_ORIENT_VERTICAL == 1

\* the orientation modes of wiimote_orient_mode
WII_ORIENT_MODE_AUTO == "AUTO"
WII_ORIENT_MODE_HORIZONTAL == "HORIZONTAL"
WII_ORIENT_MODE_VERTICAL == "VERTICAL"

\* the commands of the Wiimote
WiimoteCmdStatusReq == Cmd(WII_CMD_STATUS_REQ, "", 0)
WiimoteCmdExtInit1 == Cmd(WII_CMD_WRITE_DATA, "A400F0", 85)
WiimoteCmdExtInit2 == Cmd(WII_CMD_WRITE_DATA, "A400FB", 0)
WiimoteCmdReadExtType == Cmd(WII_CMD_READ_DATA, "A400FA", 6)
\* wiimote_set_report_mode(): 0x35 with an extension, 0x31 without
wiimote_set_report_mode(has_extension) ==
    Cmd(WII_CMD_REPORT_MODE, "", IF has_extension THEN 53 ELSE 49)
WiimoteCmdLed(pattern) == Cmd(WII_CMD_LED, "", pattern)
wiimote_set_leds(player) ==
    WiimoteCmdLed(IF player >= 1 /\ player <= 4 THEN 2 ^ (player + 3) ELSE 0)
wiimote_set_rumble(on) == Cmd(16, "", IF on THEN 1 ELSE 0)

\* (v & mask) != 0 for a mask of one bit
HasBit(v, mask) == (v \div mask) % 2 = 1

\* fault variant: the horizontal threshold is exclusive
wiimote_detect_orientation_strict(accel_x, current) ==
    LET d == accel_x - WII_ACCEL_CENTER
        x_dev == IF d < 0 THEN -d ELSE d
    IN  IF current = WII_ORIENT_VERTICAL
        THEN IF x_dev > WII_ACCEL_THRESH_ON THEN WII_ORIENT_HORIZONTAL ELSE current
        ELSE IF x_dev < WII_ACCEL_THRESH_OFF THEN WII_ORIENT_VERTICAL ELSE current

\* wiimote_detect_orientation(): lines 243-263
wiimote_detect_orientation(accel_x, current) ==
    LET d == accel_x - WII_ACCEL_CENTER
        x_dev == IF d < 0 THEN -d ELSE d
    IN  IF current = WII_ORIENT_VERTICAL
        THEN IF x_dev >= WII_ACCEL_THRESH_ON THEN WII_ORIENT_HORIZONTAL ELSE current
        ELSE IF x_dev < WII_ACCEL_THRESH_OFF THEN WII_ORIENT_VERTICAL ELSE current

\* fault variant: the D-pad is rotated clockwise
wiimote_rotate_controls_cw(buttons, orient) ==
    IF orient = WII_ORIENT_VERTICAL THEN buttons
    ELSE LET turn == [b \in {"DU", "DD", "DL", "DR", "B1", "B2", "B3", "B4"} |->
                        CASE b = "DU" -> "DR" [] b = "DR" -> "DD"
                          [] b = "DD" -> "DL" [] b = "DL" -> "DU"
                          [] b = "B1" -> "B3" [] b = "B3" -> "B1"
                          [] b = "B2" -> "B4" [] b = "B4" -> "B2"]
         IN  {IF b \in DOMAIN turn THEN turn[b] ELSE b : b \in buttons}

\* wiimote_rotate_controls(): lines 268-296
wiimote_rotate_controls(buttons, orient) ==
    IF orient = WII_ORIENT_VERTICAL THEN buttons
    ELSE LET dpad == buttons \cap {"DU", "DD", "DL", "DR"}
             face == buttons \cap {"B1", "B2", "B3", "B4"}
             other == buttons \ {"DU", "DD", "DL", "DR", "B1", "B2", "B3", "B4"}
             rotated_dpad ==
                 (IF "DU" \in dpad THEN {"DL"} ELSE {})
                 \cup (IF "DL" \in dpad THEN {"DD"} ELSE {})
                 \cup (IF "DD" \in dpad THEN {"DR"} ELSE {})
                 \cup (IF "DR" \in dpad THEN {"DU"} ELSE {})
             swapped_face ==
                 (IF "B1" \in face THEN {"B3"} ELSE {})
                 \cup (IF "B2" \in face THEN {"B4"} ELSE {})
                 \cup (IF "B3" \in face THEN {"B1"} ELSE {})
                 \cup (IF "B4" \in face THEN {"B2"} ELSE {})
         IN  other \cup rotated_dpad \cup swapped_face

\* lines 364-383: the core buttons of bytes 1 and 2
WiimoteRawButtons(b1, b2) ==
    (b1 % 32) + 256 * ((b2 % 32) + 128 * ((b2 \div 128) % 2))

WiimoteCoreMap ==
    { <<WII_BTN_UP, "DU">>, <<WII_BTN_DOWN, "DD">>, <<WII_BTN_LEFT, "DL">>,
      <<WII_BTN_RIGHT, "DR">>, <<WII_BTN_A, "B2">>, <<WII_BTN_B, "B1">>,
      <<WII_BTN_ONE, "B3">>, <<WII_BTN_TWO, "B4">>, <<WII_BTN_MINUS, "S1">>,
      <<WII_BTN_PLUS, "S2">>, <<WII_BTN_HOME, "A1">> }

\* the buttons of a table whose bit is set in v
MappedButtons(v, table) == { m[2] : m \in { t \in table : HasBit(v, t[1]) } }

\* lines 506-523 and 528-545: the buttons of a Classic Controller
WiimoteClassicMap ==
    { <<WII_CC_BTN_B, "B1">>, <<WII_CC_BTN_A, "B2">>, <<WII_CC_BTN_Y, "B3">>,
      <<WII_CC_BTN_X, "B4">>, <<WII_CC_BTN_LT, "L1">>, <<WII_CC_BTN_RT, "R1">>,
      <<WII_CC_BTN_ZL, "L2">>, <<WII_CC_BTN_ZR, "R2">>, <<WII_CC_BTN_MINUS, "S1">>,
      <<WII_CC_BTN_PLUS, "S2">>, <<WII_CC_BTN_HOME, "A1">>, <<WII_CC_BTN_UP, "DU">>,
      <<WII_CC_BTN_DOWN, "DD">>, <<WII_CC_BTN_LEFT, "DL">>,
      <<WII_CC_BTN_RIGHT, "DR">> }

\* lines 565-578: the buttons of a guitar
WiimoteGuitarMap ==
    { <<GH_BTN_GREEN, "B1">>, <<GH_BTN_RED, "B2">>, <<GH_BTN_YELLOW, "B4">>,
      <<GH_BTN_BLUE, "B3">>, <<GH_BTN_ORANGE, "L1">>, <<GH_BTN_STRUM_UP, "DU">>,
      <<GH_BTN_STRUM_DOWN, "DD">>, <<GH_BTN_PLUS, "S2">>, <<GH_BTN_MINUS, "S1">> }

\* ~((ext[4] << 0) | (ext[5] << 8)) as a uint16_t
WiimoteExtButtons16(ext) == 65535 - (ext[5] + 256 * ext[6])

\* lines 460-589: the extension bytes ext[0..5] (here ext[1..6]) applied to
\* the analog axes and the buttons, by extension type
WiimoteExtAnalog(analog, ext_type, ext) ==
    IF ext_type = WII_EXT_NUNCHUK
    THEN [analog EXCEPT !["LX"] = ext[1], !["LY"] = 255 - ext[2]]
    ELSE IF ext_type = WII_EXT_CLASSIC
    THEN LET lx == ext[1] % 64
             ly == ext[2] % 64
             crx == (((ext[1] \div 64) % 4) * 8) + (((ext[2] \div 64) % 4) * 2)
                    + ((ext[3] \div 128) % 2)
             cry == ext[3] % 32
             lt == ((ext[3] \div 32) % 4) + (((ext[4] \div 16) % 8) * 4)
             rt == ext[4] % 32
         IN  [analog EXCEPT
                 !["LX"] = ((lx * 4) % 256) + (lx \div 16),
                 !["LY"] = 255 - (((ly * 4) % 256) + (ly \div 16)),
                 !["RX"] = ((crx * 8) % 256) + (crx \div 4),
                 !["RY"] = 255 - (((cry * 8) % 256) + (cry \div 4)),
                 !["L2"] = ((lt * 8) % 256) + (lt \div 4),
                 !["R2"] = ((rt * 8) % 256) + (rt \div 4)]
    ELSE IF ext_type = WII_EXT_GUITAR
    THEN LET stick_x == ext[1] % 64
             stick_y == ext[2] % 64
             whammy == ext[4] % 32
         IN  [analog EXCEPT
                 !["LX"] = ((stick_x * 4) % 256) + (stick_x \div 16),
                 !["LY"] = 255 - (((stick_y * 4) % 256) + (stick_y \div 16)),
                 !["L2"] = ((whammy * 8) % 256) + (whammy \div 4)]
    ELSE analog

WiimoteExtPressed(ext_type, ext) ==
    IF ext_type = WII_EXT_NUNCHUK
    THEN LET ext_buttons == 255 - ext[6]
         IN  (IF HasBit(ext_buttons, WII_BTN_Z) THEN {"L2"} ELSE {})
             \cup (IF HasBit(ext_buttons, WII_BTN_C) THEN {"L1"} ELSE {})
    ELSE IF ext_type \in {WII_EXT_CLASSIC, WII_EXT_CLASSIC_MINI}
    THEN MappedButtons(WiimoteExtButtons16(ext), WiimoteClassicMap)
    ELSE IF ext_type = WII_EXT_GUITAR
    THEN MappedButtons(WiimoteExtButtons16(ext), WiimoteGuitarMap)
    ELSE {}

\* a report of the Wiimote: id, length, the two core button bytes, the X
\* accelerometer byte, the six extension bytes, the extension flag of a status
\* report, the fields of an ACK, and data[6..11] of a read response
WiimoteReport(id, len, b1, b2, accel_x, ext, ext_bit, acked, error, ident) ==
    [id |-> id, len |-> len, b1 |-> b1, b2 |-> b2, accel_x |-> accel_x,
     ext |-> ext, ext_bit |-> ext_bit, acked |-> acked, error |-> error,
     ident |-> ident]

NoExt == <<128, 128, 0, 0, 255, 255>>
NoIdent == <<0, 0, 0, 0, 0, 0>>
WiimoteNoReport == WiimoteReport(0, 0, 0, 0, 0, NoExt, FALSE, 0, 0, NoIdent)

WiimoteStatus(len, ext_bit) ==
    WiimoteReport(WII_REPORT_STATUS, len, 0, 0, 0, NoExt, ext_bit, 0, 0, NoIdent)
WiimoteAck(acked, error) ==
    WiimoteReport(WII_REPORT_ACK, 5, 0, 0, 0, NoExt, FALSE, acked, error, NoIdent)
WiimoteRead(len, error, ident) ==
    WiimoteReport(WII_REPORT_READ_DATA, len, 0, 0, 0, NoExt, FALSE, 0, error, ident)
WiimoteButtons(id, len, b1, b2, accel_x, ext) ==
    WiimoteReport(id, len, b1, b2, accel_x, ext, FALSE, 0, 0, NoIdent)

\* the reports of the connect machine and of extension hot-swap, with the
\* data report of a tilted Wiimote whose Nunchuk has its stick pushed and Z held
WiimoteReports ==
    { WiimoteStatus(4, TRUE), WiimoteStatus(4, FALSE),
      WiimoteAck(WII_CMD_WRITE_DATA, 0), WiimoteAck(WII_CMD_REPORT_MODE, 0),
      WiimoteAck(WII_CMD_LED, 0),
      WiimoteRead(12, 0, <<0, 0, 164, 32, 0, 0>>),
      WiimoteButtons(WII_REPORT_BUTTONS_ACC_EXT16, 22, 0, 0, 116,
                     <<200, 0, 0, 0, 0, 254>>) }

VARIABLES
    wiimote_data,        \* wiimote_data[0]: the per-instance state of the driver
    wiimote_device,      \* device->driver_data is set: a Wiimote is connected
    wiimote_orient_mode, \* the orientation mode shared by all Wiimotes
    wiimote_hist,        \* what has happened on the current connection
    rx,                  \* the report handed to the last process_report call
    flash                \* the settings store, as far as the driver uses it

WiimoteDataInit ==
    [event |-> ZeroEvent, initialized |-> FALSE, state |-> WII_STATE_IDLE,
     init_time |-> 0, init_retries |-> 0, last_keepalive |-> 0,
     ext_type |-> WII_EXT_NONE, extension_connected |-> FALSE,
     player_led |-> 0, rumble_on |-> FALSE,
     orientation |-> WII_ORIENT_HORIZONTAL, orient_hotkey_active |-> FALSE]

WiimoteHistInit ==
    [last |-> Cmd(0, "", 0),  \* the last command sent before READY
     attempts |-> 0,          \* times it has been sent in a row, capped
     since_send |-> 0,        \* ticks since it was sent, capped
     restarted |-> FALSE,     \* a status report has started the extension steps
     chain |-> << >>,         \* the first commands sent since then
     since_ka |-> 0,          \* ticks since READY or the last keep-alive, capped
     ka_sent |-> FALSE]       \* a keep-alive has been sent in this READY period

\* the stored settings can be loaded; a save is pending with this orientation
\* mode since last_change_ms
FlashInit ==
    [valid |-> TRUE, save_pending |-> FALSE,
     pending_orient_mode |-> WII_ORIENT_MODE_AUTO, last_change_ms |-> 0]

\* flash_load() then flash_save() of lines 403-407: the stored settings with the
\* new orientation mode are queued for a debounced save
WiimoteQueueSave(f, mode, t) ==
    IF f.valid
    THEN [f EXCEPT !.save_pending = TRUE, !.pending_orient_mode = mode,
                   !.last_change_ms = t]
    ELSE f

wiimoteVars ==
    <<wiimote_data, wiimote_device, wiimote_orient_mode, wiimote_hist, rx, flash>>

(***************************************************************************)
(* State of the other drivers and services                                 *)
(***************************************************************************)
\* the indices of switch2_data[BTHID_MAX_DEVICES]; the model has as many
\* connections (conn_index) as slots
Switch2Slots == 0..1

VARIABLES
    switch2_data,    \* switch2_data[]: the per-instance state of the driver
    switch2_device,  \* device->driver_data per connection: a slot, -1 if NULL
    switch2_hist     \* the valid reports of each connection since it connected

Switch2HistInit ==
    [valid |-> 0,        \* valid reports processed since the connect, capped
     raw |-> << >>,      \* the raw stick values of the first of them
     reused |-> FALSE]   \* the slot still held the centres of an earlier connection

\* the zero-initialised static storage of the driver
Switch2Init ==
    /\ switch2_data = [i \in Switch2Slots |->
            [event |-> ZeroEvent, dev_addr |-> 0, initialized |-> FALSE,
             pid |-> 0, cal_lx_center |-> 0, cal_ly_center |-> 0,
             cal_rx_center |-> 0, cal_ry_center |-> 0, cal_samples |-> 0]]
    /\ switch2_device = [d \in Switch2Slots |-> -1]
    /\ switch2_hist = [d \in Switch2Slots |-> Switch2HistInit]

VARIABLES
    bitdo_data,      \* device_data[0] of the 8BitDo Ultimate driver
    bitdo_device,    \* device->driver_data is set: a controller is connected
    call,            \* the handler that ran in the last step
    fb_hist          \* outputs transmitted since the last write of the feedback

\* transmits of rumble and of the LED since the last write, capped at 2
FeedbackHistInit == [rumble |-> 0, led |-> 0]

\* the zero-initialised static storage of the driver
BitdoInit ==
    /\ bitdo_data = [event |-> ZeroEvent, initialized |-> FALSE,
                     rumble_left |-> 0, rumble_right |-> 0]
    /\ bitdo_device = FALSE

VARIABLES
    gc_host,         \* the static state of gc_host.c, port 0
    n64_host         \* the static state of n64_host.c, port 0

\* the static storage of the two native host drivers; "fails" is the number
\* of failed polls in a row, capped, and "wire_rumble" the rumble bit of the
\* last poll command
HostInit ==
    /\ gc_host = [initialized |-> FALSE, rumble_state |-> FALSE,
                  disconnect_debounce |-> 0, was_connected |-> FALSE,
                  prev_buttons |-> {}, fails |-> 0, wire_rumble |-> FALSE]
    /\ n64_host = [initialized |-> FALSE, rumble_state |-> FALSE,
                   rumble_pending |-> FALSE, rumble_pak_initialized |-> FALSE,
                   connected_polls |-> 0, disconnect_debounce |-> 0,
                   prev_buttons |-> {}, fails |-> 0]

VARIABLES
    registered_hotkeys, \* registered_hotkeys[0 .. hotkey_count - 1] of hotkeys.c
    hotkey_active,      \* hotkey_active[]
    player_state,       \* player_state[]: the hold state of each player
    global_state,       \* global_buttons, global_hold_start_ms,
                        \* global_holding[] and global_triggered[]
    time_ms,            \* platform_time_ms()
    fired,              \* the callbacks invoked by the last step
    hotkey_hist         \* history: what the checks have seen of each combo

\* the ids of registered_hotkeys[MAX_HOTKEYS], the players of
\* player_state[MAX_PLAYERS] and the buttons that the combos use
HotkeyIds == 0..1
HotkeyPlayers == 0..1
HotkeyButtons == {"S1", "S2"}

\* the player argument of the callback of a global hotkey (0xFF)
HOTKEY_GLOBAL == 255

HotkeyWho == HotkeyPlayers \cup {HOTKEY_GLOBAL}

\* history of one combo for one player: whether the last check saw it held,
\* since when, whether it had then been held for duration_ms, the callbacks
\* of this hold (capped), and, in the step that saw it released, for how long
\* it had been held
HotkeyHoldInit ==
    [held |-> FALSE, since |-> 0, due |-> FALSE, fires |-> 0, rel |-> -1]

\* hotkeys.c lines 8-26: static storage
HotkeysInit ==
    /\ registered_hotkeys = << >>
    /\ hotkey_active = [i \in HotkeyIds |-> FALSE]
    /\ player_state =
         [p \in HotkeyPlayers |->
            [held_buttons |-> {}, hold_start_ms |-> 0,
             holding |-> [i \in HotkeyIds |-> FALSE],
             triggered |-> [i \in HotkeyIds |-> FALSE]]]
    /\ global_state =
         [buttons |-> {}, hold_start_ms |-> 0,
          holding |-> [i \in HotkeyIds |-> FALSE],
          triggered |-> [i \in HotkeyIds |-> FALSE]]
    /\ time_ms = 0
    /\ fired = {}
    /\ hotkey_hist =
         [holds |-> [w \in HotkeyWho |-> [i \in HotkeyIds |-> HotkeyHoldInit]],
          frame |-> [p \in HotkeyPlayers |-> 0]]

hotkeyVars ==
    <<registered_hotkeys, hotkey_active, player_state, global_state,
      time_ms, fired, hotkey_hist>>

VARIABLES
    bt_slots,        \* initialized of the per-instance slots of a driver
    bt_devices,      \* the bthid_device_t of each connection
    bt_ret,          \* the last call of init and what it returned
    bt_hist          \* history: how often each slot was taken, capped

\* the indices of wii_u_data[BTHID_MAX_DEVICES], and the connections
\* (conn_index) that ask the driver for a slot: one more than it has
SlotIds == 0..2
SlotConns == 0..3

\* wii_u_pro_bt.c line 108: static storage; no connection has a device yet
SlotsInit ==
    /\ bt_slots = [i \in SlotIds |-> FALSE]
    /\ bt_devices = [d \in SlotConns |-> [attached |-> FALSE, driver_data |-> -1]]
    /\ bt_ret = [conn |-> -1, ok |-> FALSE]
    /\ bt_hist = [i \in SlotIds |-> 0]

slotVars == <<bt_slots, bt_devices, bt_ret, bt_hist>>

VARIABLES
    gamepad_data,    \* gamepad_data[0] of the generic Bluetooth gamepad driver
    gamepad_device,  \* device->driver_data is set: a gamepad is connected
    gamepad_rx       \* the report passed to the last gamepad_process_report

\* no field of the report: the zeroed ble_usage_loc_t
NoLoc == [byteIndex |-> 0, bitMask |-> 0, max |-> 0]

\* the zeroed ble_report_map_t
GamepadNoMap ==
    [xLoc |-> NoLoc, yLoc |-> NoLoc, zLoc |-> NoLoc, rzLoc |-> NoLoc,
     rxLoc |-> NoLoc, ryLoc |-> NoLoc, hatLoc |-> NoLoc,
     buttonLoc |-> [i \in 0..11 |-> NoLoc], buttonCnt |-> 0]

\* bthid_gamepad.c line 50: static storage
GamepadInit ==
    /\ gamepad_data = [event |-> ZeroEvent, initialized |-> FALSE,
                       has_report_map |-> FALSE, map |-> GamepadNoMap]
    /\ gamepad_device = FALSE
    /\ gamepad_rx = << >>

gamepadVars == <<gamepad_data, gamepad_device, gamepad_rx>>

\* the variables of the parts of the firmware other than the input drivers
(***************************************************************************)
(* GameCube adapter USB device mode (gc_adapter_mode.c): state             *)
(***************************************************************************)
VARIABLES
    gc_itf,             \* _gc_itf: the endpoints and epin_buf
    gc_ep,              \* the state of the two endpoints in the USB device stack
    gc_adapter_report,  \* the four ports of the input report
    gc_adapter_rumble,  \* the rumble bits of the four ports and gc_adapter_rumble_available
    gc_ret,             \* the value that the last call of the mode returned
    gc_rx,              \* the output report handled last
    gc_players,         \* playersCount and the rumble of the feedback of each player
    gc_hist             \* history: the last input passed for each port, whether
                        \* the call that passed it was dropped, and the number
                        \* of OUT transfers handled since the interface opened

GC_ADAPTER_STATUS_RUMBLE == 4
GC_ADAPTER_STATUS_CONNECTED == 20
GC_ADAPTER_REPORT_ID_RUMBLE == 17
GC_ADAPTER_REPORT_ID_INIT == 19
GC_EP_IN == 129
GC_EP_OUT == 2

GcPorts == 0..3
\* the players of the feedback service
GcPlayers == 0..1

\* a port after gc_adapter_mode_init(): lines 237-246
GcNoPort ==
    [status |-> GC_ADAPTER_STATUS_RUMBLE, buttons |-> {},
     stick_x |-> 0, stick_y |-> 0, cstick_x |-> 0, cstick_y |-> 0,
     trigger_l |-> 0, trigger_r |-> 0]

\* gc_driver_init() and gc_adapter_mode_init(): lines 64-67 and 235-250
GcAdapterInit ==
    /\ gc_itf = [ep_in |-> 0, ep_out |-> 0, epin_buf |-> << >>]
    /\ gc_ep = [in_busy |-> FALSE, out_busy |-> FALSE]
    /\ gc_adapter_report = [q \in GcPorts |-> GcNoPort]
    /\ gc_adapter_rumble = [rumble |-> [q \in GcPorts |-> 0], available |-> FALSE]
    /\ gc_ret = 0
    /\ gc_rx = << >>
    /\ gc_players = [count |-> 0, rumble |-> [i \in GcPlayers |-> 0]]
    /\ gc_hist = [last |-> [q \in GcPorts |-> << >>],
                 dropped |-> [q \in GcPorts |-> FALSE], outs |-> 0]

gcVars ==
    <<gc_itf, gc_ep, gc_adapter_report, gc_adapter_rumble, gc_ret, gc_rx,
      gc_players, gc_hist>>

(***************************************************************************)
(* Decoder of the 8BitDo Ultimate driver applied to one report: state      *)
(***************************************************************************)
VARIABLES
    bitdo_in,       \* the report passed to bitdo_process_report
    bitdo_out       \* the events that the call submitted

BitdoDecodeInit ==
    /\ bitdo_in = << >>
    /\ bitdo_out = << >>

bitdoDecodeVars == <<bitdo_in, bitdo_out>>

(***************************************************************************)
(* User button (button_esp32.c) and the bt2usb app on the ESP32: state     *)
(***************************************************************************)
VARIABLES
    button,         \* the static variables of button_esp32.c; the three time
                    \* stamps are kept as the time elapsed since them
    button_gpio,    \* the button is down (the GPIO level is low)
    button_polled,  \* app_task has run since the clock advanced
    app_calls,      \* the calls made by the last step, each with its task
    button_hist     \* history: the gestures of the user, from the debounced level

BUTTON_DEBOUNCE_MS == 20
BUTTON_CLICK_MAX_MS == 500
BUTTON_DOUBLE_CLICK_MS == 300
BUTTON_HOLD_MS == 1000

\* button_init(): lines 79-99
ButtonInit ==
    /\ button = [state |-> "IDLE", since_press |-> 0, since_release |-> 0,
                 since_change |-> 0, last_raw_state |-> FALSE,
                 hold_event_fired |-> FALSE, click_count |-> 0]
    /\ button_gpio = FALSE
    /\ button_polled = TRUE
    /\ app_calls = << >>
    /\ button_hist = [down |-> FALSE, down_ms |-> 0, up_ms |-> 0, clicks |-> 0,
                      held |-> FALSE, gesture |-> "none"]

buttonVars == <<button, button_gpio, button_polled, app_calls, button_hist>>

(***************************************************************************)
(* Settings storage of the ESP32 (flash_esp32.c): state                    *)
(***************************************************************************)
VARIABLES
    flash_store,    \* the static variables of flash_esp32.c; last_change_ms is
                    \* kept as the time elapsed since it
    nvs_blob,       \* the blob "settings" committed to NVS, << >> if none
    flash_hist      \* history: flash_init has run, the time since the last
                    \* flash_save, the settings it passed, and whether a
                    \* flash_save has restarted a running debounce

SETTINGS_MAGIC == 1195593810
SAVE_DEBOUNCE_MS == 5000

\* the fields of flash_t that the drivers change, all zero
FlashDefaults ==
    [active_profile_index |-> 0, custom_profile_count |-> 0,
     wiimote_orient_mode |-> WII_ORIENT_MODE_AUTO]

\* the static initialisers: lines 18-27
FlashStoreInit ==
    /\ flash_store = [nvs_opened |-> FALSE, save_pending |-> FALSE,
                      since_change |-> 0, pending_settings |-> << >>,
                      current_sequence |-> 0,
                      runtime_settings |-> FlashDefaults,
                      runtime_settings_loaded |-> FALSE]
    /\ nvs_blob = << >>
    /\ flash_hist = [inited |-> FALSE, since_save |-> 0, last |-> << >>,
                     restarted |-> FALSE]

flashVars == <<flash_store, nvs_blob, flash_hist>>

(***************************************************************************)
(* State of the SInput USB host driver (sinput_host.c)                     *)
(***************************************************************************)
VARIABLES
    sinput_start,   \* the time elapsed since the static start_ms of
                    \* task_sinput_host, capped at interval_ms
    sinput_devices, \* the cached output state of instance 0 of each device
    sinput_mounted, \* the devices that are mounted
    sinput_fb,      \* for each device the player index of its output config
                    \* and the feedback state of that player
    sinput_pos,     \* the device whose task the main loop has called last
    sinput_sent     \* the output reports sent by the last step

\* the device addresses
SInputDevs == 1 .. 2

\* interval_ms of task_sinput_host: line 164
interval_ms == 20

\* the zeroed sinput_instance_t: line 28
SInputInstanceZero ==
    [rumble_left |-> 0, rumble_right |-> 0, player |-> 0, led |-> "ZERO"]

\* a device without a player: no feedback state
SInputNoFeedback == [player_index |-> -1, rumble |-> <<0, 0>>, led |-> "ZERO"]

SInputInit ==
    /\ sinput_start = 0
    /\ sinput_devices = [d \in SInputDevs |-> SInputInstanceZero]
    /\ sinput_mounted = {}
    /\ sinput_fb = [d \in SInputDevs |-> SInputNoFeedback]
    /\ sinput_pos = 0
    /\ sinput_sent = << >>

sinputVars ==
    <<sinput_start, sinput_devices, sinput_mounted, sinput_fb, sinput_pos,
      sinput_sent>>

laterVars ==
    <<slotVars, gamepadVars, gcVars, bitdoDecodeVars, buttonVars, flashVars,
      sinputVars>>

LaterInit ==
    /\ SlotsInit
    /\ GamepadInit
    /\ GcAdapterInit
    /\ BitdoDecodeInit
    /\ ButtonInit
    /\ FlashStoreInit
    /\ SInputInit

restVars ==
    <<switch2_data, switch2_device, switch2_hist,
      bitdo_data, bitdo_device, call, fb_hist, gc_host, n64_host,
      hotkeyVars, laterVars>>

RestInit ==
    /\ Switch2Init
    /\ BitdoInit
    /\ call = "boot"
    /\ fb_hist = FeedbackHistInit
    /\ HostInit
    /\ HotkeysInit
    /\ LaterInit

(***************************************************************************)
(* Actions of the Wii U Pro driver                                         *)
(***************************************************************************)
\* wii_u_init(): lines 258-293
wii_u_init ==
    /\ ~wii_u_device
    /\ ~wii_u_data.initialized
    /\ wii_u_data' = [wii_u_data EXCEPT
            !.event = init_input_event,
            !.initialized = TRUE,
            !.player_led = 0,
            !.state = WII_U_STATE_WAIT_INIT,
            !.init_time = TimeAdd(now, Ticks(WII_U_INIT_DELAY_MS)),
            !.init_retries = 0]
    /\ wii_u_device' = TRUE
    /\ wii_u_hist' = WiiUHistInit
    /\ polled' = FALSE
    /\ submitted' = << >>
    /\ tx' = << >>
    /\ UNCHANGED <<now, player_idx, fb>>
    /\ UNCHANGED wiimoteVars
    /\ UNCHANGED restVars

\* wii_u_process_report(): lines 295-589
wii_u_process_report ==
    /\ wii_u_device
    /\ \E r \in WiiUReports, stamp \in Stamps(now) :
        LET new == WiiUAfterReport(wii_u_data, r, now, stamp)
            evs == IF WiiUIsData(r) THEN <<new.event>> ELSE << >>
            h == wii_u_hist
            mode_sent == \E i \in 1..Len(h.steps) : h.steps[i] = WiiUCmdReportMode
            h1 == [h EXCEPT
                     !.happy = /\ @
                               /\ ~(r.id = WIIU_REPORT_STATUS /\ r.len >= 7 /\ ~r.ext
                                    /\ wii_u_data.state = WII_U_STATE_WAIT_STATUS)
                               /\ ~(WiiUIsData(r)
                                    /\ (~mode_sent \/ r.id # WIIU_REPORT_EXT_21)),
                     !.acked = IF WiiUAnswers(r, h.last) THEN @ \cup {h.last} ELSE @,
                     !.data_seen = @ \/ (r.id = WIIU_REPORT_EXT_21 /\ r.len >= 22)]
        IN  /\ wii_u_data' = new
            /\ submitted' = evs
            /\ player_idx' = PlayerAfterSubmit(player_idx, evs)
            /\ wii_u_hist' = WiiUHistNorm(WiiUEnterReady(h1, wii_u_data.state, new.state))
    /\ tx' = << >>
    /\ UNCHANGED <<now, polled, fb, wii_u_device>>
    /\ UNCHANGED wiimoteVars
    /\ UNCHANGED restVars

\* wii_u_task(): lines 591-811
wii_u_task_cs(cs) ==
    /\ wii_u_device
    /\  LET wii == wii_u_data
            ready == wii.state = WII_U_STATE_READY
            rs == WiiUReadyStep(wii, now, cs, fb, player_idx)
            co == WiiUConnectStep(wii, now, cs[1])
            new == IF ready THEN rs.wii ELSE co.wii
            out == IF ready THEN rs.tx ELSE co.tx
            h == wii_u_hist
            h1 == IF ready
                  THEN [h EXCEPT !.since_ka = IF rs.keepalive THEN 0 ELSE @,
                                 !.ka_sent = @ \/ rs.keepalive]
                  ELSE [h EXCEPT
                          !.happy = @ /\ ~(wii.state \in WiiUWaitStates
                                           /\ SignedDiff(now, wii.init_time) >= 0),
                          !.steps = WiiUSteps(@, out),
                          !.last = IF out = << >> THEN @ ELSE out[1],
                          !.attempts = IF out = << >> THEN @
                                       ELSE IF out[1] = h.last
                                       THEN Min(@ + 1, WII_U_INIT_MAX_RETRIES + 1)
                                       ELSE 1,
                          !.since_send = IF out # << >> THEN 0 ELSE @]
        IN  /\ ready \/ (cs[2] = cs[1] /\ cs[3] = cs[1])
            /\ wii_u_data' = new
            /\ tx' = out
            /\ fb' = IF ready THEN rs.fb ELSE fb
            /\ wii_u_hist' = WiiUHistNorm(WiiUEnterReady(h1, wii.state, new.state))
            /\ polled' = (polled \/ \A i \in 1..3 : cs[i])
    /\ submitted' = << >>
    /\ UNCHANGED <<now, player_idx, wii_u_device>>
    /\ UNCHANGED wiimoteVars
    /\ UNCHANGED restVars

CanSendAlways == [i \in 1..3 |-> TRUE]

wii_u_task == \E cs \in [1..3 -> BOOLEAN] : wii_u_task_cs(cs)

\* wii_u_disconnect(): lines 813-827
wii_u_disconnect ==
    /\ wii_u_device
    /\ wii_u_data' = [wii_u_data EXCEPT
            !.event = init_input_event,
            !.initialized = FALSE,
            !.state = WII_U_STATE_IDLE,
            !.init_retries = 0]
    /\ wii_u_device' = FALSE
    /\ player_idx' = -1
    /\ submitted' = << >>
    /\ tx' = << >>
    /\ wii_u_hist' = WiiUHistInit
    /\ polled' = FALSE
    /\ UNCHANGED <<now, fb>>
    /\ UNCHANGED wiimoteVars
    /\ UNCHANGED restVars

\* The platform clock advances by one tick.  A tick is long (TickMs): the main
\* loop runs the task of a connected device many times per tick, and the
\* transport is not busy for a whole tick, so at least one of these task calls
\* finds btstack_wiimote_can_send() true.
WiiUTick ==
    /\ polled \/ ~wii_u_device
    /\ now' = TimeAdd(now, 1)
    /\ polled' = FALSE
    /\ wii_u_hist' =
         IF wii_u_data.state = WII_U_STATE_READY
         THEN [wii_u_hist EXCEPT !.since_ka = Min(@ + 1, Ticks(WII_U_KEEPALIVE_MS))]
         ELSE IF wii_u_hist.last.id # 0
         THEN [wii_u_hist EXCEPT !.since_send = Min(@ + 1, Ticks(WII_U_STEP_TIMEOUT_MS))]
         ELSE wii_u_hist
    /\ submitted' = << >>
    /\ tx' = << >>
    /\ UNCHANGED <<player_idx, fb, wii_u_data, wii_u_device>>
    /\ UNCHANGED wiimoteVars
    /\ UNCHANGED restVars

WiimoteIsButtons(r) ==
    /\ (r.id >= 48 /\ r.id <= 55) \/ r.id = 62 \/ r.id = 63
    /\ r.len >= 3

\* lines 359-604: a report with core buttons.  The result is the driver data,
\* the orientation mode, the settings store and the events submitted.
WiimoteButtonsReport(wii, mode, f, r, t) ==
    LET raw_buttons == WiimoteRawButtons(r.b1, r.b2)
        core == MappedButtons(raw_buttons, WiimoteCoreMap)
        plus_held == HasBit(raw_buttons, WII_BTN_PLUS)
        up_held == HasBit(raw_buttons, WII_BTN_UP)
        down_held == HasBit(raw_buttons, WII_BTN_DOWN)
        left_held == HasBit(raw_buttons, WII_BTN_LEFT)
        right_held == HasBit(raw_buttons, WII_BTN_RIGHT)
        hotkey == plus_held /\ (up_held \/ down_held \/ left_held \/ right_held)
        new_mode == IF up_held THEN WII_ORIENT_MODE_VERTICAL
                    ELSE IF right_held THEN WII_ORIENT_MODE_HORIZONTAL
                    ELSE WII_ORIENT_MODE_AUTO
        changed == hotkey /\ ~wii.orient_hotkey_active /\ new_mode # mode
        mode1 == IF changed THEN new_mode ELSE mode
        f1 == IF changed THEN WiimoteQueueSave(f, new_mode, t) ELSE f
        buttons1 == IF hotkey THEN core \ {"S2", "DU", "DD", "DL", "DR"} ELSE core
        has_accel == r.id \in {WII_REPORT_BUTTONS_ACC, WII_REPORT_BUTTONS_ACC_EXT16,
                               WII_REPORT_BUTTONS_ACC_IR,
                               WII_REPORT_BUTTONS_ACC_IR_EXT6}
        new_orient ==
            IF mode1 = WII_ORIENT_MODE_HORIZONTAL THEN WII_ORIENT_HORIZONTAL
            ELSE IF mode1 = WII_ORIENT_MODE_VERTICAL THEN WII_ORIENT_VERTICAL
            ELSE IF has_accel /\ r.len >= 6
                 THEN wiimote_detect_orientation(r.accel_x, wii.orientation)
                 ELSE wii.orientation
        has_ext == \/ r.id = WII_REPORT_BUTTONS_EXT8 /\ r.len >= 9
                   \/ r.id = WII_REPORT_BUTTONS_ACC_EXT16 /\ r.len >= 22
        analog1 == IF has_ext THEN WiimoteExtAnalog(wii.event.analog, wii.ext_type, r.ext)
                   ELSE wii.event.analog
        buttons2 == IF has_ext THEN buttons1 \cup WiimoteExtPressed(wii.ext_type, r.ext)
                    ELSE buttons1
        buttons3 == IF wii.ext_type = WII_EXT_NONE /\ ~wii.extension_connected
                    THEN wiimote_rotate_controls(buttons2, new_orient)
                    ELSE buttons2
        new == [wii EXCEPT !.orient_hotkey_active = hotkey,
                           !.orientation = new_orient,
                           !.event = [@ EXCEPT !.analog = analog1,
                                               !.buttons = buttons3]]
    IN  [wii |-> new, mode |-> mode1, flash |-> f1,
         submitted |-> IF wii.state = WII_STATE_READY THEN <<new.event>> ELSE << >>]

\* fault variant: the analogs of a removed extension stay as they were
WiimoteKeepAnalog(analog) == analog

\* lines 636-641: the analogs after the extension was removed
WiimoteCenterAnalog(analog) ==
    [a \in Axes |-> IF a \in StickAxes THEN 128 ELSE 0]

\* lines 608-646: a status report
WiimoteStatusReport(wii, r) ==
    IF wii.state = WII_STATE_WAIT_STATUS
    THEN [wii |-> [wii EXCEPT !.extension_connected = r.ext_bit,
                       !.state = IF r.ext_bit THEN WII_STATE_SEND_EXT_INIT1
                                 ELSE WII_STATE_SEND_REPORT_MODE],
          submitted |-> << >>]
    ELSE IF wii.state = WII_STATE_READY /\ r.ext_bit # wii.extension_connected
    THEN IF r.ext_bit
         THEN [wii |-> [wii EXCEPT !.extension_connected = TRUE,
                            !.ext_type = WII_EXT_NONE,
                            !.state = WII_STATE_SEND_EXT_INIT1],
               submitted |-> << >>]
         ELSE LET ev == [wii.event EXCEPT !.analog = WiimoteCenterAnalog(@)]
              IN  [wii |-> [wii EXCEPT !.extension_connected = FALSE,
                                !.ext_type = WII_EXT_NONE,
                                !.event = ev,
                                !.state = WII_STATE_SEND_REPORT_MODE],
                   submitted |-> <<ev>>]
    ELSE [wii |-> wii, submitted |-> << >>]

\* fault variant: the ACK of the first extension write skips the second write
wiimote_ack_next_skip(state, acked_report) ==
    IF state = WII_STATE_WAIT_EXT_INIT1_ACK /\ acked_report = WII_CMD_WRITE_DATA
    THEN WII_STATE_READ_EXT_TYPE
    ELSE IF state = WII_STATE_WAIT_EXT_INIT2_ACK /\ acked_report = WII_CMD_WRITE_DATA
    THEN WII_STATE_READ_EXT_TYPE
    ELSE IF state = WII_STATE_WAIT_REPORT_ACK /\ acked_report = WII_CMD_REPORT_MODE
    THEN WII_STATE_SEND_LED
    ELSE IF state = WII_STATE_WAIT_LED_ACK /\ acked_report = WII_CMD_LED
    THEN WII_STATE_READY
    ELSE state

\* lines 655-667: the state after an ACK report without error
wiimote_ack_next(state, acked_report) ==
    IF state = WII_STATE_WAIT_EXT_INIT1_ACK /\ acked_report = WII_CMD_WRITE_DATA
    THEN WII_STATE_SEND_EXT_INIT2
    ELSE IF state = WII_STATE_WAIT_EXT_INIT2_ACK /\ acked_report = WII_CMD_WRITE_DATA
    THEN WII_STATE_READ_EXT_TYPE
    ELSE IF state = WII_STATE_WAIT_REPORT_ACK /\ acked_report = WII_CMD_REPORT_MODE
    THEN WII_STATE_SEND_LED
    ELSE IF state = WII_STATE_WAIT_LED_ACK /\ acked_report = WII_CMD_LED
    THEN WII_STATE_READY
    ELSE state

\* lines 694-722: the extension type of an identifier data[6..11]
WiimoteExtType(current, ident) ==
    IF ident[3] = 164 /\ ident[4] = 32
    THEN IF ident[5] = 0 /\ ident[6] = 0 THEN WII_EXT_NUNCHUK
         ELSE IF ident[5] = 1 /\ ident[6] = 1
         THEN IF ident[1] >= 2 THEN WII_EXT_CLASSIC_MINI ELSE WII_EXT_CLASSIC
         ELSE IF ident[5] = 1 /\ ident[6] = 3 THEN WII_EXT_GUITAR
         ELSE IF ident[5] = 1 /\ ident[6] = 32 THEN current
         ELSE WII_EXT_NONE
    ELSE current

\* wiimote_process_report(): lines 351-729
WiimoteAfterReport(wii, mode, f, r, t) ==
    LET same == [wii |-> wii, mode |-> mode, flash |-> f, submitted |-> << >>]
    IN  IF r.len < 1 THEN same
        ELSE IF WiimoteIsButtons(r) THEN WiimoteButtonsReport(wii, mode, f, r, t)
        ELSE IF r.id = WII_REPORT_STATUS /\ r.len >= 4
        THEN LET s == WiimoteStatusReport(wii, r)
             IN  [same EXCEPT !.wii = s.wii, !.submitted = s.submitted]
        ELSE IF r.id = WII_REPORT_ACK /\ r.len >= 5
        THEN IF r.error = 0
             THEN LET next == wiimote_ack_next(wii.state, r.acked)
                  IN  IF wii.state = WII_STATE_WAIT_LED_ACK /\ next = WII_STATE_READY
                      THEN [same EXCEPT !.wii.state = next,
                                        !.wii.last_keepalive = t]
                      ELSE [same EXCEPT !.wii.state = next]
             ELSE same
        ELSE IF r.id = WII_REPORT_READ_DATA /\ r.len >= 7
        THEN IF wii.state = WII_STATE_WAIT_EXT_TYPE
             THEN [same EXCEPT
                     !.wii.ext_type = IF r.error = 0 /\ r.len >= 12
                                      THEN WiimoteExtType(@, r.ident) ELSE @,
                     !.wii.state = WII_STATE_SEND_REPORT_MODE]
             ELSE same
        ELSE same

\* fault variant: one retry more than WIIMOTE_INIT_MAX_RETRIES allows
wiimote_status_timeout_one_more(wii) ==
    LET retries == (wii.init_retries + 1) % 256
    IN  IF retries <= WIIMOTE_INIT_MAX_RETRIES
        THEN [wii EXCEPT !.init_retries = retries,
                         !.state = WII_STATE_SEND_STATUS_REQ]
        ELSE [wii EXCEPT !.init_retries = 0,
                         !.state = WII_STATE_SEND_REPORT_MODE]

\* lines 754-762: the status request timed out
wiimote_status_timeout(wii) ==
    LET retries == (wii.init_retries + 1) % 256
    IN  IF retries < WIIMOTE_INIT_MAX_RETRIES
        THEN [wii EXCEPT !.init_retries = retries,
                         !.state = WII_STATE_SEND_STATUS_REQ]
        ELSE [wii EXCEPT !.init_retries = 0,
                         !.state = WII_STATE_SEND_REPORT_MODE]

\* a sending step: the command goes out when the transport can send
WiimoteSend(wii, t, can_send, cmd, wait) ==
    IF can_send
    THEN [wii |-> [wii EXCEPT !.state = wait,
                       !.init_time = TimeAdd(t, Ticks(WIIMOTE_STEP_TIMEOUT_MS))],
          tx |-> <<cmd>>]
    ELSE [wii |-> wii, tx |-> << >>]

\* fault variant: a waiting step has no timeout and waits for its answer
WiimoteWaitForever(wii, t, next) == [wii |-> wii, tx |-> << >>]

\* a waiting step other than WAIT_STATUS: the machine moves on at the timeout
WiimoteWait(wii, t, next) ==
    [wii |-> IF SignedDiff(t, wii.init_time) >= 0
             THEN [wii EXCEPT !.state = next] ELSE wii,
     tx |-> << >>]

\* the connect steps of wiimote_task(): lines 739-836
WiimoteConnectStep(wii, t, can_send) ==
    CASE wii.state = WII_STATE_WAIT_INIT ->
           WiimoteWait(wii, t, WII_STATE_SEND_STATUS_REQ)
      [] wii.state = WII_STATE_SEND_STATUS_REQ ->
           WiimoteSend(wii, t, can_send, WiimoteCmdStatusReq, WII_STATE_WAIT_STATUS)
      [] wii.state = WII_STATE_WAIT_STATUS ->
           [wii |-> IF SignedDiff(t, wii.init_time) >= 0
                    THEN wiimote_status_timeout(wii) ELSE wii,
            tx |-> << >>]
      [] wii.state = WII_STATE_SEND_EXT_INIT1 ->
           WiimoteSend(wii, t, can_send, WiimoteCmdExtInit1,
                       WII_STATE_WAIT_EXT_INIT1_ACK)
      [] wii.state = WII_STATE_WAIT_EXT_INIT1_ACK ->
           WiimoteWait(wii, t, WII_STATE_SEND_EXT_INIT2)
      [] wii.state = WII_STATE_SEND_EXT_INIT2 ->
           WiimoteSend(wii, t, can_send, WiimoteCmdExtInit2,
                       WII_STATE_WAIT_EXT_INIT2_ACK)
      [] wii.state = WII_STATE_WAIT_EXT_INIT2_ACK ->
           WiimoteWait(wii, t, WII_STATE_READ_EXT_TYPE)
      [] wii.state = WII_STATE_READ_EXT_TYPE ->
           WiimoteSend(wii, t, can_send, WiimoteCmdReadExtType,
                       WII_STATE_WAIT_EXT_TYPE)
      [] wii.state = WII_STATE_WAIT_EXT_TYPE ->
           WiimoteWait(wii, t, WII_STATE_SEND_REPORT_MODE)
      [] wii.state = WII_STATE_SEND_REPORT_MODE ->
           WiimoteSend(wii, t, can_send,
                       wiimote_set_report_mode(wii.extension_connected),
                       WII_STATE_WAIT_REPORT_ACK)
      [] wii.state = WII_STATE_WAIT_REPORT_ACK ->
           WiimoteWait(wii, t, WII_STATE_SEND_LED)
      [] wii.state = WII_STATE_SEND_LED ->
           LET r == WiimoteSend(wii, t, can_send, wiimote_set_leds(1),
                                WII_STATE_WAIT_LED_ACK)
           IN  [r EXCEPT !.wii.player_led = IF can_send THEN 16 ELSE @]
      [] wii.state = WII_STATE_WAIT_LED_ACK ->
           LET r == WiimoteWait(wii, t, WII_STATE_READY)
           IN  IF r.wii.state = WII_STATE_READY
               THEN [r EXCEPT !.wii.last_keepalive = t]
               ELSE r
      [] OTHER -> [wii |-> wii, tx |-> << >>]

\* the READY branch of wiimote_task(): lines 838-888.  cs[1], cs[2], cs[3] are
\* the answers of the three btstack_wiimote_can_send() calls of the branch.
WiimoteReadyStep(wii, t, cs, f, pidx) ==
    LET rumble_wanted == f.rumble_left > 0 \/ f.rumble_right > 0
        do_rumble == pidx >= 0 /\ f.rumble_dirty /\ rumble_wanted # wii.rumble_on
                     /\ cs[1]
        led == IF f.led_pattern # 0 THEN (f.led_pattern * 16) % 256
               ELSE (PLAYER_LEDS(pidx + 1) * 16) % 256
        do_led == pidx >= 0 /\ (f.led_dirty \/ led # wii.player_led) /\ cs[2]
        do_ka == SignedDiff(t, wii.last_keepalive) >= Ticks(WIIMOTE_KEEPALIVE_MS)
                 /\ cs[3]
    IN  [wii |-> [wii EXCEPT
                     !.rumble_on = IF do_rumble THEN rumble_wanted ELSE @,
                     !.player_led = IF do_led THEN led ELSE @,
                     !.last_keepalive = IF do_ka THEN t ELSE @],
         tx |-> (IF do_rumble THEN <<wiimote_set_rumble(rumble_wanted)>> ELSE << >>)
                \o (IF do_led THEN <<WiimoteCmdLed(led)>> ELSE << >>)
                \o (IF do_ka THEN <<WiimoteCmdStatusReq>> ELSE << >>),
         fb |-> IF pidx >= 0 /\ (f.rumble_dirty \/ f.led_dirty)
                THEN feedback_clear_dirty(f) ELSE f,
         keepalive |-> do_ka]

WiimoteWaitStates ==
    {WII_STATE_WAIT_STATUS, WII_STATE_WAIT_EXT_INIT1_ACK,
     WII_STATE_WAIT_EXT_INIT2_ACK, WII_STATE_WAIT_EXT_TYPE,
     WII_STATE_WAIT_REPORT_ACK, WII_STATE_WAIT_LED_ACK}

\* the commands of the extension steps
WiimoteExtChain == <<WiimoteCmdExtInit1, WiimoteCmdExtInit2, WiimoteCmdReadExtType>>

\* the history after the driver moved from state "from" to state "to"
WiimoteEnterReady(h, from, to) ==
    IF to = WII_STATE_READY /\ from # WII_STATE_READY
    THEN [h EXCEPT !.last = Cmd(0, "", 0), !.attempts = 0, !.since_send = 0,
                   !.restarted = FALSE, !.chain = << >>,
                   !.since_ka = 0, !.ka_sent = FALSE]
    ELSE IF from = WII_STATE_READY /\ to # WII_STATE_READY
    THEN [h EXCEPT !.since_ka = 0, !.ka_sent = FALSE]
    ELSE h

(***************************************************************************)
(* Actions of the Wiimote driver                                           *)
(***************************************************************************)
\* wiimote_init(): lines 322-349
wiimote_init ==
    /\ ~wiimote_device
    /\ ~wiimote_data.initialized
    /\ wiimote_data' = [wiimote_data EXCEPT
            !.event = init_input_event,
            !.initialized = TRUE,
            !.ext_type = WII_EXT_NONE,
            !.extension_connected = FALSE,
            !.state = WII_STATE_WAIT_INIT,
            !.init_time = TimeAdd(now, Ticks(WIIMOTE_INIT_DELAY_MS)),
            !.init_retries = 0]
    /\ wiimote_device' = TRUE
    /\ wiimote_hist' = WiimoteHistInit
    /\ rx' = WiimoteNoReport
    /\ polled' = FALSE
    /\ submitted' = << >>
    /\ tx' = << >>
    /\ UNCHANGED <<now, player_idx, fb, wiimote_orient_mode, flash>>
    /\ UNCHANGED wiiuVars
    /\ UNCHANGED restVars

\* wiimote_process_report(): lines 351-729, for a report of the set "reports"
WiimoteProcess(reports) ==
    /\ wiimote_device
    /\ \E r \in reports :
        LET res == WiimoteAfterReport(wiimote_data, wiimote_orient_mode, flash, r, now)
            h == wiimote_hist
            restart == /\ r.id = WII_REPORT_STATUS /\ r.len >= 4 /\ r.ext_bit
                       /\ res.wii.state = WII_STATE_SEND_EXT_INIT1
                       /\ wiimote_data.state # WII_STATE_SEND_EXT_INIT1
            h1 == IF restart THEN [h EXCEPT !.restarted = TRUE, !.chain = << >>]
                  ELSE h
        IN  /\ wiimote_data' = res.wii
            /\ wiimote_orient_mode' = res.mode
            /\ flash' = res.flash
            /\ submitted' = res.submitted
            /\ player_idx' = PlayerAfterSubmit(player_idx, res.submitted)
            /\ wiimote_hist' = WiimoteEnterReady(h1, wiimote_data.state, res.wii.state)
            /\ rx' = r
    /\ tx' = << >>
    /\ UNCHANGED <<now, polled, fb, wiimote_device>>
    /\ UNCHANGED wiiuVars
    /\ UNCHANGED restVars

wiimote_process_report == WiimoteProcess(WiimoteReports)

\* wiimote_task(): lines 731-893
wiimote_task_cs(cs) ==
    /\ wiimote_device
    /\  LET wii == wiimote_data
            ready == wii.state = WII_STATE_READY
            rs == WiimoteReadyStep(wii, now, cs, fb, player_idx)
            co == WiimoteConnectStep(wii, now, cs[1])
            new == IF ready THEN rs.wii ELSE co.wii
            out == IF ready THEN rs.tx ELSE co.tx
            h == wiimote_hist
            h1 == IF ready
                  THEN [h EXCEPT !.since_ka = IF rs.keepalive THEN 0 ELSE @,
                                 !.ka_sent = @ \/ rs.keepalive]
                  ELSE [h EXCEPT
                          !.last = IF out = << >> THEN @ ELSE out[1],
                          !.attempts = IF out = << >> THEN @
                                       ELSE IF out[1] = h.last
                                       THEN Min(@ + 1, WIIMOTE_INIT_MAX_RETRIES + 1)
                                       ELSE 1,
                          !.since_send = IF out # << >> THEN 0 ELSE @,
                          !.chain = IF h.restarted /\ Len(@) < 3 THEN @ \o out ELSE @]
        IN  /\ ready \/ (cs[2] = cs[1] /\ cs[3] = cs[1])
            /\ wiimote_data' = new
            /\ tx' = out
            /\ fb' = IF ready THEN rs.fb ELSE fb
            /\ wiimote_hist' = WiimoteEnterReady(h1, wii.state, new.state)
            /\ polled' = (polled \/ \A i \in 1..3 : cs[i])
    /\ submitted' = << >>
    /\ rx' = WiimoteNoReport
    /\ UNCHANGED <<now, player_idx, wiimote_device, wiimote_orient_mode, flash>>
    /\ UNCHANGED wiiuVars
    /\ UNCHANGED restVars

wiimote_task == \E cs \in [1..3 -> BOOLEAN] : wiimote_task_cs(cs)

\* wiimote_disconnect(): lines 895-907
wiimote_disconnect ==
    /\ wiimote_device
    /\ wiimote_data' = [wiimote_data EXCEPT
            !.event = init_input_event,
            !.initialized = FALSE,
            !.state = WII_STATE_IDLE]
    /\ wiimote_device' = FALSE
    /\ player_idx' = -1
    /\ submitted' = << >>
    /\ tx' = << >>
    /\ wiimote_hist' = WiimoteHistInit
    /\ rx' = WiimoteNoReport
    /\ polled' = FALSE
    /\ UNCHANGED <<now, fb, wiimote_orient_mode, flash>>
    /\ UNCHANGED wiiuVars
    /\ UNCHANGED restVars

\* The platform clock advances by one tick, under the scheduling of WiiUTick.
WiimoteTick ==
    /\ polled \/ ~wiimote_device
    /\ now' = TimeAdd(now, 1)
    /\ polled' = FALSE
    /\ wiimote_hist' =
         IF wiimote_data.state = WII_STATE_READY
         THEN [wiimote_hist EXCEPT
                  !.since_ka = Min(@ + 1, Ticks(WIIMOTE_KEEPALIVE_MS))]
         ELSE IF wiimote_hist.last.id # 0
         THEN [wiimote_hist EXCEPT
                  !.since_send = Min(@ + 1, Ticks(WIIMOTE_STEP_TIMEOUT_MS))]
         ELSE wiimote_hist
    /\ submitted' = << >>
    /\ tx' = << >>
    /\ rx' = WiimoteNoReport
    /\ UNCHANGED <<player_idx, fb, wiimote_data, wiimote_device,
                   wiimote_orient_mode, flash>>
    /\ UNCHANGED wiiuVars
    /\ UNCHANGED restVars

vars == <<now, polled, submitted, tx, player_idx, fb,
          wii_u_data, wii_u_device, wii_u_hist,
          wiimote_data, wiimote_device, wiimote_orient_mode, wiimote_hist, rx,
          flash,
          restVars>>

Init ==
    /\ now = 0
    /\ polled = FALSE
    /\ submitted = << >>
    /\ tx = << >>
    /\ player_idx = -1
    /\ fb = FeedbackInit
    /\ wii_u_data = WiiUDataInit
    /\ wii_u_device = FALSE
    /\ wii_u_hist = WiiUHistInit
    /\ wiimote_data = WiimoteDataInit
    /\ wiimote_device = FALSE
    /\ wiimote_orient_mode = WII_ORIENT_MODE_AUTO
    /\ wiimote_hist = WiimoteHistInit
    /\ rx = WiimoteNoReport
    /\ flash = FlashInit
    /\ RestInit

Next ==
    \/ wii_u_init
    \/ wii_u_process_report
    \/ wii_u_task
    \/ wii_u_disconnect
    \/ WiiUTick

Spec == Init /\ [][Next]_vars

(***************************************************************************)
(* The Wii U Pro driver with a controller that never answers: the reports  *)
(* are left out, the task is called forever, the transport is free again   *)
(* and again, and time passes.                                             *)
(***************************************************************************)
NextSilent ==
    \/ wii_u_init
    \/ wii_u_task
    \/ wii_u_disconnect
    \/ WiiUTick

SpecSilent ==
    /\ Init
    /\ [][NextSilent]_vars
    /\ WF_vars(wii_u_task_cs(CanSendAlways))
    /\ WF_vars(WiiUTick)

(***************************************************************************)
(* The Wiimote driver: connect machine, extension hot-swap and keep-alive  *)
(***************************************************************************)
NextWiimote ==
    \/ wiimote_init
    \/ wiimote_process_report
    \/ wiimote_task
    \/ wiimote_disconnect
    \/ WiimoteTick

SpecWiimote == Init /\ [][NextWiimote]_vars

(***************************************************************************)
(* Extension hot-swap of a READY Wiimote that acknowledges nothing: the    *)
(* Wiimote sends status reports (extension plugged or removed) and button  *)
(* reports only.  The task is called in every iteration of the main loop,  *)
(* the transport is free again and again, and time passes.                 *)
(***************************************************************************)
WiimoteSwapReports ==
    { WiimoteStatus(4, TRUE), WiimoteStatus(4, FALSE),
      WiimoteButtons(WII_REPORT_BUTTONS_ACC_EXT16, 22, 0, 0, 116,
                     <<200, 0, 0, 0, 0, 254>>) }

wiimote_process_swap == WiimoteProcess(WiimoteSwapReports)

\* a Wiimote without extension that has completed its connect sequence on
\* the LED ACK (lines 662-665) and has run its task once in READY
InitSwap ==
    /\ now = 1
    /\ polled = TRUE
    /\ submitted = << >>
    /\ tx = << >>
    /\ player_idx = -1
    /\ fb = FeedbackInit
    /\ wii_u_data = WiiUDataInit
    /\ wii_u_device = FALSE
    /\ wii_u_hist = WiiUHistInit
    /\ wiimote_data = [WiimoteDataInit EXCEPT
            !.event = init_input_event, !.initialized = TRUE,
            !.player_led = 16, !.state = WII_STATE_READY,
            !.init_time = 2, !.last_keepalive = 1]
    /\ wiimote_device = TRUE
    /\ wiimote_orient_mode = WII_ORIENT_MODE_AUTO
    /\ wiimote_hist = WiimoteHistInit
    /\ rx = WiimoteNoReport
    /\ flash = FlashInit
    /\ RestInit

NextSwap ==
    \/ wiimote_process_swap
    \/ wiimote_task
    \/ WiimoteTick

SpecSwap ==
    /\ InitSwap
    /\ [][NextSwap]_vars
    /\ WF_vars(wiimote_task_cs(CanSendAlways))
    /\ WF_vars(WiimoteTick)

(***************************************************************************)
(* The orientation handling of the Wiimote driver                          *)
(***************************************************************************)
\* X accelerometer samples on both sides of the two thresholds
AccelSamples == {0, 108, 109, 116, 117, 128, 139, 140, 147, 148, 255}

\* data[1] of a report with nothing held, Plus+Up, Plus+Right, Plus+Down
HotkeySamples ==
    {0, WII_BTN_PLUS + WII_BTN_UP, WII_BTN_PLUS + WII_BTN_RIGHT,
     WII_BTN_PLUS + WII_BTN_DOWN}

\* button reports with and without accelerometer bytes
WiimoteMotionReports ==
    { WiimoteButtons(f[1], f[2], b1, 0, x, NoExt) :
        f \in { <<WII_REPORT_BUTTONS, 3>>, <<WII_REPORT_BUTTONS_ACC, 5>>,
                <<WII_REPORT_BUTTONS_ACC, 6>>,
                <<WII_REPORT_BUTTONS_ACC_EXT16, 22>> },
        b1 \in HotkeySamples, x \in AccelSamples }

wiimote_process_motion == WiimoteProcess(WiimoteMotionReports)

InitOrient ==
    /\ now = 0
    /\ polled = FALSE
    /\ submitted = << >>
    /\ tx = << >>
    /\ player_idx = -1
    /\ fb = FeedbackInit
    /\ wii_u_data = WiiUDataInit
    /\ wii_u_device = FALSE
    /\ wii_u_hist = WiiUHistInit
    /\ wiimote_data = WiimoteDataInit
    /\ wiimote_device = FALSE
    /\ wiimote_orient_mode = WII_ORIENT_MODE_AUTO
    /\ wiimote_hist = WiimoteHistInit
    /\ rx = WiimoteNoReport
    /\ flash \in {FlashInit, [FlashInit EXCEPT !.valid = FALSE]}
    /\ RestInit

NextOrient ==
    \/ wiimote_init
    \/ wiimote_process_motion
    \/ wiimote_disconnect

SpecOrient == InitOrient /\ [][NextOrient]_vars

(***************************************************************************)
(* The buttons of a Wiimote in READY                                       *)
(***************************************************************************)
\* button reports 0x30 with one or two buttons held or an orientation hotkey,
\* and reports 0x31 of a Wiimote held upright and held sideways
WiimoteButtonReports ==
    { WiimoteButtons(WII_REPORT_BUTTONS, 3, b1, b2, 0, NoExt) :
        b1 \in {0, WII_BTN_UP, WII_BTN_DOWN, WII_BTN_LEFT, WII_BTN_RIGHT,
                WII_BTN_UP + WII_BTN_LEFT, WII_BTN_PLUS,
                WII_BTN_PLUS + WII_BTN_UP, WII_BTN_PLUS + WII_BTN_RIGHT,
                WII_BTN_PLUS + WII_BTN_DOWN},
        b2 \in {0, WII_BTN_A \div 256, WII_BTN_B \div 256, WII_BTN_ONE \div 256,
                WII_BTN_TWO \div 256, WII_BTN_HOME \div 256,
                (WII_BTN_A + WII_BTN_ONE + WII_BTN_MINUS) \div 256} }
    \cup { WiimoteButtons(WII_REPORT_BUTTONS_ACC, 6, WII_BTN_UP, 0, x, NoExt) :
             x \in {128, 148} }

wiimote_process_buttons == WiimoteProcess(WiimoteButtonReports)

\* a Wiimote without extension whose LED command has just been acknowledged,
\* one tick after it connected
InitButtons ==
    /\ now = 1
    /\ polled = TRUE
    /\ submitted = << >>
    /\ tx = << >>
    /\ player_idx = -1
    /\ fb = FeedbackInit
    /\ wii_u_data = WiiUDataInit
    /\ wii_u_device = FALSE
    /\ wii_u_hist = WiiUHistInit
    /\ wiimote_data = [WiimoteDataInit EXCEPT
            !.event = init_input_event, !.initialized = TRUE,
            !.state = WII_STATE_READY, !.init_time = 2, !.last_keepalive = 1,
            !.player_led = 16]
    /\ wiimote_device = TRUE
    /\ wiimote_orient_mode = WII_ORIENT_MODE_AUTO
    /\ wiimote_hist = WiimoteHistInit
    /\ rx = WiimoteAck(WII_CMD_LED, 0)
    /\ flash = FlashInit
    /\ RestInit

NextButtons ==
    \/ wiimote_process_buttons
    \/ wiimote_disconnect
    \/ wiimote_init

SpecButtons == InitButtons /\ [][NextButtons]_vars

(***************************************************************************)
(* Nintendo Switch 2 BLE driver (switch2_ble.c)                            *)
(***************************************************************************)
SW2_PRO2_PID == 8297
SW2_GC_PID == 8307

SW2_PRO_AXIS_RANGE == 1610
SW2_GC_AXIS_RANGE == 1225
SW2_GC_CSTICK_RANGE == 1120

CAL_SAMPLES_NEEDED == 4

\* bit positions in the 32-bit button field
SW2_B == 2
SW2_ZL == 23

\* scale_analog_calibrated(): lines 93-105
scale_analog_calibrated(val, center, range) ==
    LET centered == val - center
        scaled == Clamp(CDiv(centered * 127, range), -128, 127)
    IN  (scaled + 128) % 256

\* Notifications: the length, whether the first byte is 0xA1, the button bits
\* that are set, bytes 10..15 and bytes 60..61 of the report.  The sticks are
\* at rest or slightly off centre; one report carries the bthid header and a
\* trigger, one is too short.
Switch2Reports ==
    LET Pack(slx, sly, srx, sry) ==
            <<slx % 256, (slx \div 256) + ((sly % 16) * 16), sly \div 16,
              srx % 256, (srx \div 256) + ((sry % 16) * 16), sry \div 16>>
        Report(len, hdr, bits, axes, lt) ==
            [len |-> len, hdr |-> hdr, bits |-> bits, axes |-> axes,
             lt |-> lt, rt |-> 0]
    IN  { Report(63, FALSE, bits, axes, 0) :
            bits \in {{}, {SW2_B}},
            axes \in {Pack(2048, 2048, 2048, 2048), Pack(2056, 2040, 2047, 2051)} }
        \cup { Report(64, TRUE, {SW2_ZL}, Pack(2048, 2048, 2048, 2048), 200),
               Report(20, FALSE, {SW2_B}, Pack(2048, 2048, 2048, 2048), 0) }

notSwitch2 ==
    <<now, polled, tx, player_idx, fb, wiiuVars, wiimoteVars,
      bitdo_data, bitdo_device, call, fb_hist, gc_host, n64_host,
      hotkeyVars, laterVars>>

\* switch2_ble_init(): lines 132-164; connection 0 is a Pro Controller 2,
\* connection 1 a GameCube controller
switch2_ble_init ==
    \E d \in Switch2Slots :
        /\ switch2_device[d] = -1
        /\ \E i \in Switch2Slots :
            /\ ~switch2_data[i].initialized
            /\ \A j \in Switch2Slots : j < i => switch2_data[j].initialized
            /\ switch2_data' = [switch2_data EXCEPT ![i] =
                    [@ EXCEPT !.event = init_input_event, !.dev_addr = d,
                              !.initialized = TRUE,
                              !.pid = IF d = 0 THEN SW2_PRO2_PID ELSE SW2_GC_PID]]
            /\ switch2_device' = [switch2_device EXCEPT ![d] = i]
            /\ switch2_hist' = [switch2_hist EXCEPT ![d] =
                    [Switch2HistInit EXCEPT
                        !.reused = switch2_data[i].cal_lx_center # 0]]
        /\ submitted' = << >>
        /\ UNCHANGED notSwitch2

\* switch2_ble_process_report(): lines 166-352
switch2_ble_process_report ==
    \E d \in Switch2Slots, r \in Switch2Reports :
        /\ switch2_device[d] # -1
        /\ LET i == switch2_device[d]
               sw2 == switch2_data[i]
               \* lines 189-202: long enough to be decoded
               valid == (r.len >= 64 /\ r.hdr) \/ r.len >= 63
               \* lines 244-247: the four packed 12-bit values
               raw == [LX |-> r.axes[1] + ((r.axes[2] % 16) * 256),
                       LY |-> (r.axes[2] \div 16) + (r.axes[3] * 16),
                       RX |-> r.axes[4] + ((r.axes[5] % 16) * 256),
                       RY |-> (r.axes[5] \div 16) + (r.axes[6] * 16)]
               \* lines 250-272: one calibration sample
               calibrated ==
                   IF sw2.cal_samples = 0
                   THEN [sw2 EXCEPT
                           !.cal_lx_center = raw.LX, !.cal_ly_center = raw.LY,
                           !.cal_rx_center = raw.RX, !.cal_ry_center = raw.RY,
                           !.cal_samples = 1]
                   ELSE [sw2 EXCEPT
                           !.cal_lx_center = ((@ + raw.LX) % 65536) \div 2,
                           !.cal_ly_center = ((@ + raw.LY) % 65536) \div 2,
                           !.cal_rx_center = ((@ + raw.RX) % 65536) \div 2,
                           !.cal_ry_center = ((@ + raw.RY) % 65536) \div 2,
                           !.cal_samples = @ + 1]
               \* lines 274-348: the event of a report after calibration
               is_gc == sw2.pid = SW2_GC_PID
               left_range == IF is_gc THEN SW2_GC_AXIS_RANGE ELSE SW2_PRO_AXIS_RANGE
               right_range == IF is_gc THEN SW2_GC_CSTICK_RANGE ELSE SW2_PRO_AXIS_RANGE
               buttons ==
                   (IF SW2_B \in r.bits THEN {"B1"} ELSE {})
                   \cup (IF SW2_ZL \in r.bits
                         THEN (IF is_gc THEN {"L1"} ELSE {"L2"}) ELSE {})
               analog == [a \in Axes |->
                   CASE a = "LX" -> scale_analog_calibrated(raw.LX, sw2.cal_lx_center, left_range)
                     [] a = "LY" -> 255 - scale_analog_calibrated(raw.LY, sw2.cal_ly_center, left_range)
                     [] a = "RX" -> scale_analog_calibrated(raw.RX, sw2.cal_rx_center, right_range)
                     [] a = "RY" -> 255 - scale_analog_calibrated(raw.RY, sw2.cal_ry_center, right_range)
                     [] a = "L2" -> r.lt
                     [] a = "R2" -> r.rt]
               h == switch2_hist[d]
           IN  IF ~valid
               THEN /\ submitted' = << >>
                    /\ UNCHANGED <<switch2_data, switch2_hist>>
               ELSE /\ switch2_hist' = [switch2_hist EXCEPT ![d] =
                            [h EXCEPT
                                !.valid = IF @ > CAL_SAMPLES_NEEDED THEN @ ELSE @ + 1,
                                !.raw = IF Len(@) < CAL_SAMPLES_NEEDED
                                        THEN Append(@, raw) ELSE @]]
                    /\ IF sw2.cal_samples < CAL_SAMPLES_NEEDED
                       THEN /\ switch2_data' = [switch2_data EXCEPT ![i] = calibrated]
                            /\ submitted' = << >>
                       ELSE /\ switch2_data' = [switch2_data EXCEPT ![i] =
                                    [sw2 EXCEPT !.event.buttons = buttons,
                                                !.event.analog = analog]]
                            /\ submitted' =
                                    <<[dev_addr |-> sw2.dev_addr, buttons |-> buttons,
                                       analog |-> analog,
                                       battery_level |-> sw2.event.battery_level]>>
        /\ UNCHANGED switch2_device
        /\ UNCHANGED notSwitch2

\* fault variant: the slot keeps its calibration count when it is released
switch2_ble_disconnect_keep_cal ==
    \E d \in Switch2Slots :
        /\ switch2_device[d] # -1
        /\ switch2_data' = [switch2_data EXCEPT ![switch2_device[d]] =
                [@ EXCEPT !.event = init_input_event, !.dev_addr = 0,
                          !.initialized = FALSE]]
        /\ switch2_device' = [switch2_device EXCEPT ![d] = -1]
        /\ switch2_hist' = [switch2_hist EXCEPT ![d] = Switch2HistInit]
        /\ submitted' = << >>
        /\ UNCHANGED notSwitch2

\* switch2_ble_disconnect(): lines 362-377
switch2_ble_disconnect ==
    \E d \in Switch2Slots :
        /\ switch2_device[d] # -1
        /\ switch2_data' = [switch2_data EXCEPT ![switch2_device[d]] =
                [@ EXCEPT !.event = init_input_event, !.dev_addr = 0,
                          !.initialized = FALSE, !.cal_samples = 0]]
        /\ switch2_device' = [switch2_device EXCEPT ![d] = -1]
        /\ switch2_hist' = [switch2_hist EXCEPT ![d] = Switch2HistInit]
        /\ submitted' = << >>
        /\ UNCHANGED notSwitch2

NextSwitch2 ==
    \/ switch2_ble_init
    \/ switch2_ble_process_report
    \/ switch2_ble_disconnect

SpecSwitch2 == Init /\ [][NextSwitch2]_vars

\* the history after a task call that transmitted rumble and/or the LED
FeedbackSent(h, rumble, led) ==
    [rumble |-> IF rumble /\ h.rumble < 2 THEN h.rumble + 1 ELSE h.rumble,
     led |-> IF led /\ h.led < 2 THEN h.led + 1 ELSE h.led]

(***************************************************************************)
(* Native host drivers (gc_host.c, n64_host.c)                             *)
(***************************************************************************)
N64_STICK_MAX == 80

\* fault variant: a poll that finds the controller does not reset the count
HostDebounceNoReset(was, count, is_connected) ==
    IF ~is_connected /\ was /\ count + 1 >= 30
    THEN [was |-> FALSE, count |-> 0, lost |-> TRUE]
    ELSE IF ~is_connected /\ was
    THEN [was |-> TRUE, count |-> count + 1, lost |-> FALSE]
    ELSE IF ~is_connected
    THEN [was |-> FALSE, count |-> count, lost |-> FALSE]
    ELSE [was |-> TRUE, count |-> count, lost |-> FALSE]

\* the debounce that takes every failed poll of a disconnected port for a
\* new disconnect
HostDebounceRepeat(was, count, is_connected) ==
    IF ~is_connected /\ was /\ count + 1 >= 30
    THEN [was |-> FALSE, count |-> 0, lost |-> TRUE]
    ELSE IF ~is_connected /\ was
    THEN [was |-> TRUE, count |-> count + 1, lost |-> FALSE]
    ELSE IF ~is_connected
    THEN [was |-> FALSE, count |-> count, lost |-> TRUE]
    ELSE [was |-> TRUE, count |-> 0, lost |-> FALSE]

\* gc_host.c lines 143-185, n64_host.c lines 190-233: the connection state
\* after a poll, the debounce count, and whether the port was declared
\* disconnected
HostDebounce(was, count, is_connected) ==
    IF ~is_connected /\ was /\ count + 1 >= 30
    THEN [was |-> FALSE, count |-> 0, lost |-> TRUE]
    ELSE IF ~is_connected /\ was
    THEN [was |-> TRUE, count |-> count + 1, lost |-> FALSE]
    ELSE IF ~is_connected
    THEN [was |-> FALSE, count |-> count, lost |-> FALSE]
    ELSE [was |-> TRUE, count |-> 0, lost |-> FALSE]

\* What a poll can answer: whether it returned data and whether the controller
\* is initialized afterwards.  A poll that returns data comes from an
\* initialized controller.
HostPolls ==
    { o \in [success : BOOLEAN, is_connected : BOOLEAN] :
        o.success => o.is_connected }

notHost ==
    <<now, polled, wiiuVars, wiimoteVars, switch2_data, switch2_device,
      switch2_hist, bitdo_data, bitdo_device, hotkeyVars, laterVars>>

\* gc_host_init(), gc_host_init_pin(): lines 76-113; an application has one
\* native host
gc_host_init ==
    /\ ~gc_host.initialized
    /\ ~n64_host.initialized
    /\ ~bitdo_device
    /\ ~wii_u_device
    /\ gc_host' = [gc_host EXCEPT
            !.initialized = TRUE, !.prev_buttons = {"FORCE"},
            !.rumble_state = FALSE, !.was_connected = FALSE]
    /\ call' = "gc_host_init"
    /\ submitted' = << >>
    /\ tx' = << >>
    /\ UNCHANGED <<player_idx, fb, fb_hist, n64_host>>
    /\ UNCHANGED notHost

\* gc_host_task(): lines 115-235, for the A button and centred sticks, with
\* a controller whose polls answer as in "polls"
GcHostTask(polls) ==
    /\ gc_host.initialized
    /\ \E o \in polls : \E a \in (IF o.success THEN BOOLEAN ELSE {FALSE}) :
        LET want_rumble == fb.rumble_left > 0 \/ fb.rumble_right > 0
            rumble == IF fb.rumble_dirty THEN want_rumble
                      ELSE gc_host.rumble_state
            deb == HostDebounce(gc_host.was_connected,
                                gc_host.disconnect_debounce, o.is_connected)
            buttons == IF a THEN {"B2"} ELSE {}
            \* lines 153-165: the cleared input
            neutral == [init_input_event EXCEPT
                          !.buttons = {},
                          !.analog = [x \in Axes |->
                              IF x \in StickAxes THEN 128 ELSE 0]]
            event == [init_input_event EXCEPT
                        !.buttons = buttons,
                        !.analog = [x \in Axes |->
                            CASE x \in {"LX", "RX"} -> 128
                              [] x \in {"LY", "RY"} -> 255 - 128
                              [] OTHER -> 0]]
            out == (IF deb.lost THEN <<neutral>> ELSE << >>)
                   \o (IF o.success THEN <<event>> ELSE << >>)
        IN  /\ gc_host' = [gc_host EXCEPT
                    !.rumble_state = rumble,
                    !.disconnect_debounce = deb.count,
                    !.was_connected = deb.was,
                    !.prev_buttons = IF o.success THEN buttons
                                     ELSE IF deb.lost THEN {} ELSE @,
                    !.fails = IF o.success THEN 0
                              ELSE IF @ < 30 THEN @ + 1 ELSE @,
                    !.wire_rumble = rumble]
            /\ fb' = IF fb.rumble_dirty THEN feedback_clear_dirty(fb) ELSE fb
            /\ tx' = <<[id |-> "poll", rumble |-> rumble]>>
            /\ submitted' = out
            /\ player_idx' = PlayerAfterSubmit(player_idx, out)
            /\ fb_hist' = FeedbackSent(fb_hist, rumble # gc_host.wire_rumble, FALSE)
    /\ call' = "gc_host_task"
    /\ UNCHANGED n64_host
    /\ UNCHANGED notHost

gc_host_task == GcHostTask(HostPolls)

\* the task with a controller that stays attached and answers every poll
gc_host_task_attached ==
    GcHostTask({[success |-> TRUE, is_connected |-> TRUE]})

\* n64_host_init(), n64_host_init_pin(): lines 112-163
n64_host_init ==
    /\ ~n64_host.initialized
    /\ ~gc_host.initialized
    /\ ~bitdo_device
    /\ ~wii_u_device
    /\ n64_host' = [n64_host EXCEPT
            !.initialized = TRUE, !.prev_buttons = {"FORCE"},
            !.rumble_state = FALSE]
    /\ call' = "n64_host_init"
    /\ submitted' = << >>
    /\ tx' = << >>
    /\ UNCHANGED <<player_idx, fb, fb_hist, gc_host>>
    /\ UNCHANGED notHost

\* n64_host_task() with n64_host_flush_rumble(): lines 165-307 and 357-383,
\* for the A button and a centred stick.  has_pak is the answer of the
\* controller when the pak is probed, time_reached says that the rate limit of
\* the rumble command has passed.
n64_host_task ==
    /\ n64_host.initialized
    /\ \E o \in HostPolls, a \in BOOLEAN, has_pak \in BOOLEAN,
          time_reached \in BOOLEAN :
        \* the poll that initializes a newly attached controller may return
        \* no data; an established controller that is still initialized
        \* has returned data
        /\ o.success \/ ~o.is_connected \/ n64_host.connected_polls = 0
        \* the inputs that the call does not read are left at FALSE
        /\ a => o.success
        /\ has_pak => (o.is_connected /\ n64_host.connected_polls = 9)
        /\ time_reached => (o.is_connected /\ (n64_host.rumble_pending \/ fb.rumble_dirty))
        /\ LET n == n64_host
               want_rumble == fb.rumble_left > 0 \/ fb.rumble_right > 0
               set == fb.rumble_dirty /\ want_rumble # n.rumble_state
               rumble == IF set THEN want_rumble ELSE n.rumble_state
               pending == n.rumble_pending \/ set
               deb == HostDebounce(n.connected_polls > 0, n.disconnect_debounce,
                                   o.is_connected)
               polls1 == IF deb.lost THEN 0
                         ELSE IF o.is_connected /\ n.connected_polls = 0 THEN 1
                         ELSE n.connected_polls
               counted == o.is_connected /\ polls1 > 0 /\ polls1 < 255
               polls2 == IF counted THEN polls1 + 1 ELSE polls1
               pak1 == IF deb.lost THEN FALSE ELSE n.rumble_pak_initialized
               pak2 == pak1 \/ (counted /\ polls2 = 10 /\ has_pak)
               \* convert_stick_axis(), lines 80-91
               convert_stick_axis(value) ==
                   Clamp(CDiv(value * 127, N64_STICK_MAX), -128, 127) + 128
               buttons == IF a THEN {"B1"} ELSE {}
               changed == o.success /\ n.prev_buttons # buttons
               \* lines 204-215: the cleared input; the triggers are those of
               \* init_input_event
               neutral == [init_input_event EXCEPT
                             !.buttons = {},
                             !.analog = [x \in Axes |->
                                 IF x \in StickAxes THEN 128 ELSE @[x]]]
               event == [init_input_event EXCEPT
                           !.buttons = buttons,
                           !.analog = [x \in Axes |->
                               CASE x \in {"LX", "LY"} -> convert_stick_axis(0)
                                 [] x \in {"RX", "RY"} -> 128
                                 [] OTHER -> 0]]
               out == (IF deb.lost THEN <<neutral>> ELSE << >>)
                      \o (IF changed THEN <<event>> ELSE << >>)
               flush == o.is_connected /\ pending /\ time_reached
           IN  /\ n64_host' = [n EXCEPT
                       !.rumble_state = rumble,
                       !.rumble_pending = pending /\ ~flush,
                       !.rumble_pak_initialized = pak2,
                       !.connected_polls = polls2,
                       !.disconnect_debounce = deb.count,
                       !.prev_buttons = IF changed THEN buttons
                                        ELSE IF deb.lost THEN {} ELSE @,
                       !.fails = IF o.success THEN 0
                                 ELSE IF @ < 30 THEN @ + 1 ELSE @]
               /\ fb' = IF fb.rumble_dirty THEN feedback_clear_dirty(fb) ELSE fb
               /\ tx' = <<[id |-> "poll", rumble |-> rumble]>>
                        \o (IF flush /\ pak2
                            THEN <<[id |-> "rumble", rumble |-> rumble]>> ELSE << >>)
               /\ submitted' = out
               /\ player_idx' = PlayerAfterSubmit(player_idx, out)
    /\ call' = "n64_host_task"
    /\ UNCHANGED <<gc_host, fb_hist>>
    /\ UNCHANGED notHost

NextHost ==
    \/ gc_host_init
    \/ gc_host_task
    \/ n64_host_init
    \/ n64_host_task

SpecHost == Init /\ [][NextHost]_vars

(***************************************************************************)
(* 8BitDo Ultimate driver (bthid_8bitdo_ultimate.c) and the feedback that  *)
(* source drivers poll in their task                                       *)
(***************************************************************************)
REPORT_ID_GAMEPAD == 3
REPORT_ID_RUMBLE == 5
OFFSET_BUTTONS_HI == 9

\* Feedback service (spec 4.6): a writer stores the value and sets the dirty
\* flag of what it wrote
FeedbackWrites ==
    { [f \in {"rumble_left", "rumble_right", "rumble_dirty"} |->
          CASE f = "rumble_left" -> v[1] [] f = "rumble_right" -> v[2]
            [] OTHER -> TRUE] : v \in {<<0, 0>>, <<255, 0>>, <<255, 128>>} }
    \cup { [f \in {"led_pattern", "led_dirty"} |->
              IF f = "led_pattern" THEN n ELSE TRUE] : n \in {0, 2} }

\* input reports: byte 0 (report id), the length, the hat, LX, the two
\* triggers and the low button byte; the other sticks are centred
BitdoReports ==
    { [id |-> REPORT_ID_GAMEPAD, len |-> 11, hat |-> hat, lx |-> lx, lt |-> 0,
       rt |-> 0, lo |-> lo] : hat \in {8, 1}, lx \in {0, 128}, lo \in {0, 1} }
    \cup { [id |-> REPORT_ID_GAMEPAD, len |-> 11, hat |-> 15, lx |-> 255,
            lt |-> 40, rt |-> 0, lo |-> 2],
           [id |-> REPORT_ID_GAMEPAD, len |-> 9, hat |-> 8, lx |-> 128,
            lt |-> 0, rt |-> 0, lo |-> 1],
           [id |-> 1, len |-> 11, hat |-> 8, lx |-> 128, lt |-> 0, rt |-> 0,
            lo |-> 1] }

\* the variables of the drivers that are not part of the feedback path
notFeedback ==
    <<wiimoteVars, switch2_data, switch2_device, switch2_hist, n64_host,
      hotkeyVars, laterVars>>

\* a writer of the feedback service sets rumble or the LED of player 0
feedback_write ==
    /\ player_idx >= 0
    /\ \E w \in FeedbackWrites :
        /\ fb' = [f \in DOMAIN fb |-> IF f \in DOMAIN w THEN w[f] ELSE fb[f]]
        /\ fb_hist' = [fb_hist EXCEPT
                !.rumble = IF "rumble_dirty" \in DOMAIN w THEN 0 ELSE @,
                !.led = IF "led_dirty" \in DOMAIN w THEN 0 ELSE @]
    /\ call' = "feedback_write"
    /\ submitted' = << >>
    /\ tx' = << >>
    /\ UNCHANGED <<now, polled, player_idx, bitdo_data, bitdo_device>>
    /\ UNCHANGED <<wiiuVars, notFeedback, gc_host>>

\* bitdo_init(): lines 136-160; the model has one source connected at a time
bitdo_init ==
    /\ ~bitdo_device
    /\ ~wii_u_device
    /\ ~gc_host.initialized
    /\ ~bitdo_data.initialized
    /\ bitdo_data' = [bitdo_data EXCEPT
            !.event = init_input_event, !.initialized = TRUE,
            !.rumble_left = 0, !.rumble_right = 0]
    /\ bitdo_device' = TRUE
    /\ call' = "bitdo_init"
    /\ submitted' = << >>
    /\ tx' = << >>
    /\ UNCHANGED <<now, polled, player_idx, fb, fb_hist>>
    /\ UNCHANGED <<wiiuVars, notFeedback, gc_host>>

\* the bytes of an input report of BitdoReports: report id, hat, LX, LY, RX,
\* RY, LT, RT, the two button bytes and the battery byte
BitdoBytes(r) ==
    SubSeq(<<r.id, r.hat, r.lx, 128, 128, 128, r.lt, r.rt, r.lo, 0, 80>>,
           1, r.len)

\* bitdo_process_report(): lines 169-178, the reports that are not decoded
bitdo_report_dropped(data) ==
    \/ Len(data) < 1
    \/ data[1] # REPORT_ID_GAMEPAD
    \/ Len(data) <= OFFSET_BUTTONS_HI

\* bitdo_process_report(): lines 180-224, the event decoded from a report
\* that is not dropped; data[i + 1] is byte i of the report
bitdo_decode(event, data) ==
    LET hat == data[2] % 16
        \* HAT_TO_DPAD, lines 80-90
        dpad == CASE hat = 0 -> {"DU"} [] hat = 1 -> {"DU", "DR"}
                  [] hat = 2 -> {"DR"} [] hat = 3 -> {"DD", "DR"}
                  [] hat = 4 -> {"DD"} [] hat = 5 -> {"DD", "DL"}
                  [] hat = 6 -> {"DL"} [] hat = 7 -> {"DU", "DL"}
                  [] OTHER -> {}
        lo_map == <<"B1", "B2", "B3", "B4", "L1", "R1", "L2", "R2">>
        hi_map == <<"S1", "S2", "L3", "R3", "A1", "A2", "A3", "A4">>
        bits(v, map) == { map[i + 1] : i \in { j \in 0..7 : (v \div 2 ^ j) % 2 = 1 } }
        \* scale_axis, lines 110-114
        scale_axis(raw) == IF raw = 0 THEN 1 ELSE raw
    IN [event EXCEPT
          !.buttons = dpad \cup bits(data[9], lo_map) \cup bits(data[10], hi_map),
          !.analog = [a \in Axes |->
              CASE a = "LX" -> scale_axis(data[3])
                [] a = "LY" -> scale_axis(data[4])
                [] a = "RX" -> scale_axis(data[5])
                [] a = "RY" -> scale_axis(data[6])
                [] a = "L2" -> data[8]
                [] OTHER -> data[7]]]

\* bitdo_process_report(): lines 166-227
bitdo_process_report ==
    /\ bitdo_device
    /\ \E r \in BitdoReports :
        LET data == BitdoBytes(r)
            event == bitdo_decode(bitdo_data.event, data)
        IN  IF bitdo_report_dropped(data)
            THEN /\ submitted' = << >>
                 /\ UNCHANGED <<bitdo_data, player_idx>>
            ELSE /\ bitdo_data' = [bitdo_data EXCEPT !.event = event]
                 /\ submitted' = <<event>>
                 /\ player_idx' = PlayerAfterSubmit(player_idx, <<event>>)
    /\ call' = "bitdo_process_report"
    /\ tx' = << >>
    /\ UNCHANGED <<now, polled, fb, fb_hist, bitdo_device>>
    /\ UNCHANGED <<wiiuVars, notFeedback, gc_host>>

\* fault variant: the task compares only the left motor with its cache
bitdo_task_left_only ==
    /\ bitdo_device
    /\ LET send == player_idx >= 0 /\ fb.rumble_dirty
                   /\ fb.rumble_left # bitdo_data.rumble_left
       IN  /\ tx' = IF send
                    THEN <<[id |-> REPORT_ID_RUMBLE,
                            buf |-> <<(fb.rumble_left * 100) \div 255,
                                      (fb.rumble_right * 100) \div 255, 0, 0>>]>>
                    ELSE << >>
           /\ bitdo_data' = IF send
                            THEN [bitdo_data EXCEPT
                                    !.rumble_left = fb.rumble_left,
                                    !.rumble_right = fb.rumble_right]
                            ELSE bitdo_data
           /\ fb' = IF player_idx >= 0 /\ fb.rumble_dirty
                    THEN feedback_clear_dirty(fb) ELSE fb
           /\ fb_hist' = FeedbackSent(fb_hist, send, FALSE)
    /\ call' = "bitdo_task"
    /\ submitted' = << >>
    /\ UNCHANGED <<now, polled, player_idx, bitdo_device>>
    /\ UNCHANGED <<wiiuVars, notFeedback, gc_host>>

\* fault variant: the task neither caches what it sent nor clears the flag
bitdo_task_no_clear ==
    /\ bitdo_device
    /\ LET send == player_idx >= 0 /\ fb.rumble_dirty
                   /\ (fb.rumble_left # bitdo_data.rumble_left
                       \/ fb.rumble_right # bitdo_data.rumble_right)
       IN  /\ tx' = IF send
                    THEN <<[id |-> REPORT_ID_RUMBLE,
                            buf |-> <<(fb.rumble_left * 100) \div 255,
                                      (fb.rumble_right * 100) \div 255, 0, 0>>]>>
                    ELSE << >>
           /\ fb_hist' = FeedbackSent(fb_hist, send, FALSE)
    /\ call' = "bitdo_task"
    /\ submitted' = << >>
    /\ UNCHANGED <<now, polled, player_idx, bitdo_device, bitdo_data, fb>>
    /\ UNCHANGED <<wiiuVars, notFeedback, gc_host>>

\* bitdo_task(): lines 235-267
bitdo_task ==
    /\ bitdo_device
    /\ LET send == player_idx >= 0 /\ fb.rumble_dirty
                   /\ (fb.rumble_left # bitdo_data.rumble_left
                       \/ fb.rumble_right # bitdo_data.rumble_right)
       IN  /\ tx' = IF send
                    THEN <<[id |-> REPORT_ID_RUMBLE,
                            buf |-> <<(fb.rumble_left * 100) \div 255,
                                      (fb.rumble_right * 100) \div 255, 0, 0>>]>>
                    ELSE << >>
           /\ bitdo_data' = IF send
                            THEN [bitdo_data EXCEPT
                                    !.rumble_left = fb.rumble_left,
                                    !.rumble_right = fb.rumble_right]
                            ELSE bitdo_data
           /\ fb' = IF player_idx >= 0 /\ fb.rumble_dirty
                    THEN feedback_clear_dirty(fb) ELSE fb
           /\ fb_hist' = FeedbackSent(fb_hist, send, FALSE)
    /\ call' = "bitdo_task"
    /\ submitted' = << >>
    /\ UNCHANGED <<now, polled, player_idx, bitdo_device>>
    /\ UNCHANGED <<wiiuVars, notFeedback, gc_host>>

\* bitdo_disconnect(): lines 273-284.  remove_players_by_address() frees the
\* player slot, and the feedback state lives as long as the slot (spec 4.1).
bitdo_disconnect ==
    /\ bitdo_device
    /\ bitdo_data' = [bitdo_data EXCEPT
            !.event = init_input_event, !.initialized = FALSE]
    /\ bitdo_device' = FALSE
    /\ player_idx' = -1
    /\ fb' = FeedbackInit
    /\ fb_hist' = FeedbackHistInit
    /\ call' = "bitdo_disconnect"
    /\ submitted' = << >>
    /\ tx' = << >>
    /\ UNCHANGED <<now, polled>>
    /\ UNCHANGED <<wiiuVars, notFeedback, gc_host>>

\* wii_u_task() of a controller in READY: lines 753-805
wii_u_ready_task_cs(cs) ==
    /\ wii_u_device
    /\ wii_u_data.state = WII_U_STATE_READY
    /\  LET rs == WiiUReadyStep(wii_u_data, now, cs, fb, player_idx)
            sent == { rs.tx[i].id : i \in 1..Len(rs.tx) }
        IN  /\ wii_u_data' = rs.wii
            /\ tx' = rs.tx
            /\ fb' = rs.fb
            /\ fb_hist' = FeedbackSent(fb_hist, WIIU_CMD_RUMBLE \in sent,
                                       WIIU_CMD_LED \in sent)
            /\ polled' = (polled \/ \A i \in 1..3 : cs[i])
    /\ call' = "wii_u_task"
    /\ submitted' = << >>
    /\ UNCHANGED <<now, player_idx, wii_u_device, wii_u_hist>>
    /\ UNCHANGED <<bitdo_data, bitdo_device, notFeedback, gc_host>>

wii_u_ready_task == \E cs \in [1..3 -> BOOLEAN] : wii_u_ready_task_cs(cs)

\* the platform clock advances by one tick; of the drivers here the Wii U Pro
\* driver alone reads the clock
FeedbackTick ==
    /\ wii_u_device
    /\ polled
    /\ now' = TimeAdd(now, 1)
    /\ polled' = FALSE
    /\ call' = "tick"
    /\ submitted' = << >>
    /\ tx' = << >>
    /\ UNCHANGED <<player_idx, fb, fb_hist, bitdo_data, bitdo_device>>
    /\ UNCHANGED <<wiiuVars, notFeedback, gc_host>>

\* Either no source is connected yet, or a Wii U Pro controller is in READY
\* and has player slot 0: it was taken to READY by a data report with buttons
\* held, and its first task call in READY has set the LED and asked for the
\* status.
InitFeedback ==
    \/ Init
    \/ /\ now = 1
       /\ polled = TRUE
       /\ submitted = << >>
       /\ tx = <<Cmd(WIIU_CMD_LED, "", 16), Cmd(WIIU_CMD_STATUS_REQ, "", 0)>>
       /\ player_idx = 0
       /\ fb = FeedbackInit
       /\ wii_u_data = [WiiUDataInit EXCEPT
               !.event = [buttons |-> {"B1", "DU"},
                          analog |-> [a \in Axes |->
                              CASE a = "LX" -> 1 [] a = "LY" -> 0
                                [] a = "RX" -> 228 [] a = "RY" -> 237
                                [] OTHER -> 0],
                          battery_level |-> 50],
               !.initialized = TRUE, !.player_led = 16,
               !.state = WII_U_STATE_READY, !.init_time = 2,
               !.last_keepalive = 1]
       /\ wii_u_device = TRUE
       /\ wii_u_hist = [WiiUHistInit EXCEPT !.happy = FALSE, !.ka_sent = TRUE]
       /\ wiimote_data = WiimoteDataInit
       /\ wiimote_device = FALSE
       /\ wiimote_orient_mode = WII_ORIENT_MODE_AUTO
       /\ wiimote_hist = WiimoteHistInit
       /\ rx = WiimoteNoReport
       /\ flash = FlashInit
       /\ RestInit

NextFeedback ==
    \/ feedback_write
    \/ bitdo_init
    \/ bitdo_process_report
    \/ bitdo_task
    \/ bitdo_disconnect
    \/ wii_u_ready_task
    \/ gc_host_init
    \/ gc_host_task_attached
    \/ FeedbackTick

SpecFeedback == InitFeedback /\ [][NextFeedback]_vars

\* The same with the scheduling of the main loop: the task of the connected
\* controller is called in every iteration, the transport is free again and
\* again, and time passes.
SpecFeedbackFair ==
    /\ InitFeedback
    /\ [][NextFeedback]_vars
    /\ WF_vars(wii_u_ready_task_cs(CanSendAlways))
    /\ WF_vars(FeedbackTick)

(***************************************************************************)
(* The hotkey service (hotkeys.c)                                          *)
(***************************************************************************)
\* the clock of the hotkey service advances HotkeyTicks times by HotkeyStepMs
\* milliseconds
HotkeyStepMs == 500
HotkeyTicks == 2

\* the hotkeys that the applications register: a hold, a tap and a release
\* combo for one player and a hold combo across the players, each with a
\* callback
HotkeyDefs ==
    { [buttons |-> {"S1"}, trigger |-> "ON_HOLD", duration_ms |-> 1000,
       global |-> FALSE],
      [buttons |-> {"S1", "S2"}, trigger |-> "ON_TAP", duration_ms |-> 1000,
       global |-> FALSE],
      [buttons |-> {"S2"}, trigger |-> "ON_RELEASE", duration_ms |-> 1000,
       global |-> FALSE],
      [buttons |-> {"S1", "S2"}, trigger |-> "ON_HOLD", duration_ms |-> 1000,
       global |-> TRUE] }

\* the buttons that the controller of a player can report: player 0 has
\* both buttons of the combos, player 1 has S2
HotkeyInputs(player) ==
    IF player = 0 THEN SUBSET HotkeyButtons ELSE SUBSET {"S2"}

\* the variables that the hotkey service does not touch
notHotkeys ==
    <<now, polled, submitted, tx, player_idx, fb, wiiuVars, wiimoteVars,
      switch2_data, switch2_device, switch2_hist, bitdo_data, bitdo_device,
      fb_hist, gc_host, n64_host, laterVars>>

\* the variables of the input drivers and of the hotkey service, but for
\* "call"
driverVars ==
    <<now, polled, submitted, tx, player_idx, fb, wiiuVars, wiimoteVars,
      switch2_data, switch2_device, switch2_hist, bitdo_data, bitdo_device,
      fb_hist, gc_host, n64_host, hotkeyVars>>

\* a combo matches when one of its buttons is held
buttons_match_any(current, required) == required \cap current # {}

\* buttons_match(): lines 66-69
buttons_match(current, required) == required \subseteq current

\* The body of the loops of hotkeys_check() (lines 91-138) and of
\* hotkeys_check_global() (lines 155-195) for hotkey i: st is the hold state
\* of the player, or the global one; the result is the new hold state and
\* the callbacks invoked.  hold_start_ms is one field for all the hotkeys.
\* The 32 bit millisecond clock does not wrap within HotkeyTicks steps, so
\* that now - hold_start_ms is the plain difference.
HotkeyStep(h, i, who, current, st) ==
    LET match == buttons_match(current, h.buttons)
        was_holding == st.holding[i]
        start == IF match /\ ~was_holding THEN time_ms ELSE st.hold_start_ms
        triggered == IF match /\ ~was_holding THEN FALSE ELSE st.triggered[i]
        held_ms == time_ms - start
        fire == IF match
                THEN /\ h.trigger = "ON_HOLD"
                     /\ ~triggered
                     /\ held_ms >= h.duration_ms
                ELSE /\ was_holding
                     /\ \/ h.trigger = "ON_RELEASE" /\ held_ms >= h.duration_ms
                        \/ h.trigger = "ON_TAP" /\ held_ms < h.duration_ms
    IN [st |-> [st EXCEPT !.hold_start_ms = start,
                          !.holding[i] = match,
                          !.triggered[i] = match /\ (triggered \/ fire)],
        fired |-> IF fire
                  THEN {[id |-> i, player |-> who, held_ms |-> held_ms]}
                  ELSE {}]

\* the loops over the registered hotkeys, lines 80-139 and 148-196: hotkey i
\* and those after it, for the active hotkeys that are global or not
RECURSIVE HotkeysLoop(_, _, _, _, _)
HotkeysLoop(i, global, who, current, acc) ==
    IF i >= Len(registered_hotkeys)
    THEN acc
    ELSE LET h == registered_hotkeys[i + 1]
             r == HotkeyStep(h, i, who, current, acc.st)
         IN IF ~hotkey_active[i] \/ h.global # global
            THEN HotkeysLoop(i + 1, global, who, current, acc)
            ELSE HotkeysLoop(i + 1, global, who, current,
                             [st |-> r.st, fired |-> acc.fired \cup r.fired])

\* history: no combo was released in this step
HotkeyQuiet(holds) ==
    [w \in HotkeyWho |-> [i \in HotkeyIds |-> [holds[w][i] EXCEPT !.rel = -1]]]

\* history: what a check with the buttons current that invoked the callbacks
\* fs has seen of the combos of who
HotkeyObserve(global, who, current, fs) ==
    [w \in HotkeyWho |-> [i \in HotkeyIds |->
        LET old == hotkey_hist.holds[w][i]
            h == registered_hotkeys[i + 1]
            began == IF old.held THEN old.since ELSE time_ms
            fire == IF \E f \in fs : f.id = i /\ f.player = who
                    THEN 1 ELSE 0
        IN IF w # who \/ i >= Len(registered_hotkeys)
           THEN [old EXCEPT !.rel = -1]
           ELSE IF ~hotkey_active[i] \/ h.global # global
           THEN [old EXCEPT !.rel = -1]
           ELSE IF h.buttons \subseteq current
           THEN [held |-> TRUE, since |-> began,
                 due |-> time_ms - began >= h.duration_ms,
                 fires |-> Min(2, (IF old.held THEN old.fires ELSE 0) + fire),
                 rel |-> -1]
           ELSE [HotkeyHoldInit EXCEPT
                   !.rel = IF old.held THEN time_ms - old.since ELSE -1]]]

\* hotkeys_register(): lines 28-39; a full table takes no more hotkeys
hotkeys_register ==
    \E h \in HotkeyDefs :
        /\ Len(registered_hotkeys) < Cardinality(HotkeyIds)
        /\ registered_hotkeys' = Append(registered_hotkeys, h)
        /\ hotkey_active' =
             [hotkey_active EXCEPT ![Len(registered_hotkeys)] = TRUE]
        /\ fired' = {}
        /\ hotkey_hist' =
             [hotkey_hist EXCEPT !.holds =
                [w \in HotkeyWho |-> [i \in HotkeyIds |->
                    IF i = Len(registered_hotkeys)
                    THEN HotkeyHoldInit
                    ELSE [@[w][i] EXCEPT !.rel = -1]]]]
        /\ call' = "hotkeys_register"
        /\ UNCHANGED <<player_state, global_state, time_ms>>
        /\ UNCHANGED notHotkeys

\* hotkeys_reset_player(): lines 54-63
hotkeys_reset_player ==
    \E player \in HotkeyPlayers :
        /\ player_state' =
             [player_state EXCEPT ![player] =
                [held_buttons |-> {}, hold_start_ms |-> 0,
                 holding |-> [i \in HotkeyIds |-> FALSE],
                 triggered |-> [i \in HotkeyIds |-> FALSE]]]
        /\ fired' = {}
        /\ hotkey_hist' =
             [holds |-> [HotkeyQuiet(hotkey_hist.holds) EXCEPT
                           ![player] = [i \in HotkeyIds |-> HotkeyHoldInit]],
              frame |-> [hotkey_hist.frame EXCEPT ![player] = Min(2, @ + 1)]]
        /\ call' = "hotkeys_reset_player"
        /\ UNCHANGED <<registered_hotkeys, hotkey_active, global_state, time_ms>>
        /\ UNCHANGED notHotkeys

\* hotkeys_check(): lines 71-143
hotkeys_check ==
    \E player \in HotkeyPlayers :
      \E buttons \in HotkeyInputs(player) :
        LET r == HotkeysLoop(0, FALSE, player, buttons,
                             [st |-> player_state[player], fired |-> {}])
        IN /\ global_state' = [global_state EXCEPT !.buttons = @ \cup buttons]
           /\ player_state' =
                [player_state EXCEPT
                   ![player] = [r.st EXCEPT !.held_buttons = buttons]]
           /\ fired' = r.fired
           /\ hotkey_hist' =
                [holds |-> HotkeyObserve(FALSE, player, buttons, r.fired),
                 frame |-> [hotkey_hist.frame EXCEPT
                              ![player] = Min(2, @ + 1)]]
           /\ call' = "hotkeys_check"
           /\ UNCHANGED <<registered_hotkeys, hotkey_active, time_ms>>
           /\ UNCHANGED notHotkeys

\* hotkeys_check_global(): lines 145-200
hotkeys_check_global ==
    LET r == HotkeysLoop(0, TRUE, HOTKEY_GLOBAL, global_state.buttons,
                         [st |-> global_state, fired |-> {}])
    IN /\ global_state' = [r.st EXCEPT !.buttons = {}]
       /\ fired' = r.fired
       /\ hotkey_hist' =
            [holds |-> HotkeyObserve(TRUE, HOTKEY_GLOBAL,
                                     global_state.buttons, r.fired),
             frame |-> [p \in HotkeyPlayers |-> 0]]
       /\ call' = "hotkeys_check_global"
       /\ UNCHANGED <<registered_hotkeys, hotkey_active, player_state, time_ms>>
       /\ UNCHANGED notHotkeys

\* platform_time_ms() advances
HotkeyTick ==
    /\ time_ms < HotkeyTicks * HotkeyStepMs
    /\ time_ms' = time_ms + HotkeyStepMs
    /\ fired' = {}
    /\ hotkey_hist' = [hotkey_hist EXCEPT !.holds = HotkeyQuiet(@)]
    /\ call' = "tick"
    /\ UNCHANGED <<registered_hotkeys, hotkey_active, player_state,
                   global_state>>
    /\ UNCHANGED notHotkeys

NextHotkeys ==
    \/ hotkeys_register
    \/ hotkeys_reset_player
    \/ hotkeys_check
    \/ hotkeys_check_global
    \/ HotkeyTick

SpecHotkeys == Init /\ [][NextHotkeys]_vars

(***************************************************************************)
(* The per-instance slots of a Bluetooth driver                            *)
(***************************************************************************)
\* the search that takes slot 0 whether or not it is free
FirstSlot(initialized) == 0

\* The search of init for a free slot (wii_u_pro_bt.c lines 262-263): the
\* first slot that is not initialized, -1 if there is none.  The same loop
\* is in wiimote_init, switch2_ble_init, bitdo_init and gamepad_init.
FreeSlot(initialized) ==
    IF \A i \in SlotIds : initialized[i]
    THEN -1
    ELSE CHOOSE i \in SlotIds :
            /\ ~initialized[i]
            /\ \A j \in SlotIds : j < i => initialized[j]

\* wii_u_init(): lines 258-293, called for a new connection, whose
\* bthid_device_t has no driver_data yet
bt_driver_init ==
    \E d \in SlotConns :
        /\ ~bt_devices[d].attached
        /\ LET i == FreeSlot(bt_slots)
           IN IF i >= 0
              THEN /\ bt_slots' = [bt_slots EXCEPT ![i] = TRUE]
                   /\ bt_devices' = [bt_devices EXCEPT ![d] =
                         [attached |-> TRUE, driver_data |-> i]]
                   /\ bt_ret' = [conn |-> d, ok |-> TRUE]
                   /\ bt_hist' = [bt_hist EXCEPT ![i] = Min(2, @ + 1)]
              ELSE /\ bt_ret' = [conn |-> d, ok |-> FALSE]
                   /\ UNCHANGED <<bt_slots, bt_devices, bt_hist>>
        /\ call' = "bt_driver_init"
        /\ UNCHANGED <<driverVars, gamepadVars, gcVars, bitdoDecodeVars, buttonVars,
                       flashVars, sinputVars>>

\* wii_u_disconnect(): lines 813-827, called for a connection that the driver
\* has accepted; the Bluetooth HID layer then gives up its bthid_device_t
bt_driver_disconnect ==
    \E d \in SlotConns :
        /\ bt_devices[d].attached
        /\ bt_slots' = [bt_slots EXCEPT ![bt_devices[d].driver_data] = FALSE]
        /\ bt_devices' = [bt_devices EXCEPT ![d] =
              [attached |-> FALSE, driver_data |-> -1]]
        /\ bt_ret' = [conn |-> -1, ok |-> FALSE]
        /\ call' = "bt_driver_disconnect"
        /\ UNCHANGED bt_hist
        /\ UNCHANGED <<driverVars, gamepadVars, gcVars, bitdoDecodeVars, buttonVars,
                       flashVars, sinputVars>>

NextSlots ==
    \/ bt_driver_init
    \/ bt_driver_disconnect

SpecSlots == Init /\ [][NextSlots]_vars

(***************************************************************************)
(* The generic Bluetooth gamepad driver (bthid_gamepad.c)                  *)
(***************************************************************************)
RECURSIVE BitAnd(_, _)
BitAnd(a, b) ==
    IF a = 0 \/ b = 0 THEN 0
    ELSE (a % 2) * (b % 2) + 2 * BitAnd(a \div 2, b \div 2)

\* __builtin_ctz
RECURSIVE Ctz(_)
Ctz(m) == IF m % 2 = 1 THEN 0 ELSE 1 + Ctz(m \div 2)

\* data[i] of a report
Byte(data, i) == data[i + 1]

\* scale_analog(): lines 66-73
scale_analog(value, max_value) ==
    LET mid == max_value \div 2
    IN IF value <= mid % 65536
       THEN (1 + (value * 127) \div mid) % 256
       ELSE (128 + ((value - mid) * 127) \div (max_value - mid)) % 256

\* extract_field(): lines 80-90
extract_field(data, len, loc) ==
    IF loc.bitMask = 0 \/ loc.byteIndex >= len THEN 0
    ELSE IF loc.bitMask > 255 /\ loc.byteIndex + 1 < len
    THEN BitAnd(Byte(data, loc.byteIndex) * 256 + Byte(data, loc.byteIndex + 1),
                loc.bitMask) \div (2 ^ Ctz(loc.bitMask))
    ELSE BitAnd(Byte(data, loc.byteIndex), loc.bitMask)

\* What bthid_gamepad_set_descriptor() (lines 92-189) leaves in the map for
\* the descriptor of a gamepad whose report has the report ID 1 in byte 0,
\* four 8 bit axes in bytes 1 to 4, the hat in the low nibble of byte 5 and
\* 12 buttons in bytes 6 and 7.
GamepadMap ==
    [xLoc |-> [byteIndex |-> 1, bitMask |-> 255, max |-> 255],
     yLoc |-> [byteIndex |-> 2, bitMask |-> 255, max |-> 255],
     zLoc |-> [byteIndex |-> 3, bitMask |-> 255, max |-> 255],
     rzLoc |-> [byteIndex |-> 4, bitMask |-> 255, max |-> 255],
     rxLoc |-> NoLoc,
     ryLoc |-> NoLoc,
     hatLoc |-> [byteIndex |-> 5, bitMask |-> 15, max |-> 0],
     buttonLoc |-> [i \in 0..11 |->
                      [byteIndex |-> 6 + i \div 8, bitMask |-> 2 ^ (i % 8),
                       max |-> 0]],
     buttonCnt |-> 12]

\* the reports of that gamepad: whole reports, reports cut short, and a report
\* of another report ID
GamepadReports ==
    { <<1, lx, ly, 128, 128, hat, lo, 0>> :
        lx \in {128, 255}, ly \in {0, 128}, hat \in {0, 8}, lo \in {0, 2} }
    \cup { << >>, <<1, 255>>, <<1, 128, 128, 128, 128>>,
           <<2, 128, 128, 128, 128, 8, 2, 0>> }

\* process_report_dynamic(): lines 198-298; the event that it stores and
\* submits
process_report_dynamic(gp, data, len) ==
    LET map == gp.map
        axis(loc, default) ==
            IF loc.max # 0
            THEN scale_analog(extract_field(data, len, loc), loc.max)
            ELSE default
        hatValue == BitAnd(Byte(data, map.hatLoc.byteIndex), map.hatLoc.bitMask)
        direction == IF hatValue <= 8 THEN hatValue ELSE 8
        \* HAT_SWITCH_TO_DIRECTION_BUTTONS, lines 58-60
        dpad == CASE direction = 0 -> {"DU"} [] direction = 1 -> {"DU", "DR"}
                  [] direction = 2 -> {"DR"} [] direction = 3 -> {"DR", "DD"}
                  [] direction = 4 -> {"DD"} [] direction = 5 -> {"DD", "DL"}
                  [] direction = 6 -> {"DL"} [] direction = 7 -> {"DL", "DU"}
                  [] OTHER -> {}
        hat == IF map.hatLoc.bitMask # 0 /\ map.hatLoc.byteIndex < len
               THEN dpad ELSE {}
        all_buttons ==
            { i \in 0..11 :
                /\ map.buttonLoc[i].bitMask # 0
                /\ map.buttonLoc[i].byteIndex < len
                /\ BitAnd(Byte(data, map.buttonLoc[i].byteIndex),
                          map.buttonLoc[i].bitMask) # 0 }
        buttonCount == IF map.buttonCnt > 12 THEN 12 ELSE map.buttonCnt
        standard == <<"B3", "B1", "B2", "B4", "L1", "R1", "L2", "R2",
                      "S1", "S2", "L3", "R3">>
        few == <<"B1", "B2", "B3", "B4", "L1", "R1", "L2", "R2">>
        mapped ==
            IF buttonCount >= 10
            THEN { standard[i + 1] : i \in all_buttons }
            ELSE { few[i + 1] : i \in { j \in all_buttons :
                                          j < 4 \/ (j < 8 /\ buttonCount >= j + 3) } }
                 \cup (IF buttonCount >= 2 /\ (buttonCount - 2) \in all_buttons
                       THEN {"S1"} ELSE {})
                 \cup (IF buttonCount >= 2 /\ (buttonCount - 1) \in all_buttons
                       THEN {"S2"} ELSE {})
        stick(v) == IF v = 0 THEN 1 ELSE v
    IN [gp.event EXCEPT
          !.buttons = hat \cup mapped,
          !.analog = [a \in Axes |->
              CASE a = "LX" -> stick(axis(map.xLoc, 128))
                [] a = "LY" -> stick(axis(map.yLoc, 128))
                [] a = "RX" -> stick(axis(map.zLoc, 128))
                [] a = "RY" -> stick(axis(map.rzLoc, 128))
                [] a = "L2" -> axis(map.rxLoc, 0)
                [] a = "R2" -> axis(map.ryLoc, 0)]]

\* the variables that the generic gamepad driver does not touch
notGamepad ==
    <<now, polled, tx, fb, fb_hist, wiiuVars, wiimoteVars, switch2_data,
      switch2_device, switch2_hist, bitdo_data, bitdo_device, gc_host,
      n64_host, hotkeyVars, slotVars, gcVars, bitdoDecodeVars, buttonVars,
      flashVars, sinputVars>>

\* gamepad_init(): lines 338-362
gamepad_init ==
    /\ ~gamepad_device
    /\ ~gamepad_data.initialized
    /\ gamepad_data' = [gamepad_data EXCEPT
            !.event = init_input_event, !.initialized = TRUE,
            !.has_report_map = FALSE, !.map = GamepadNoMap]
    /\ gamepad_device' = TRUE
    /\ gamepad_rx' = << >>
    /\ submitted' = << >>
    /\ call' = "gamepad_init"
    /\ UNCHANGED <<player_idx, gamepad_rx>>
    /\ UNCHANGED notGamepad

\* bthid_gamepad_set_descriptor(): lines 92-189, for the descriptor of
\* GamepadMap
bthid_gamepad_set_descriptor ==
    /\ gamepad_device
    /\ ~gamepad_data.has_report_map
    /\ gamepad_data' = [gamepad_data EXCEPT
            !.map = GamepadMap, !.has_report_map = TRUE]
    /\ submitted' = << >>
    /\ call' = "bthid_gamepad_set_descriptor"
    /\ UNCHANGED <<player_idx, gamepad_device, gamepad_rx>>
    /\ UNCHANGED notGamepad

\* gamepad_process_report(): lines 364-412, with process_report_dynamic()
gamepad_process_report ==
    /\ gamepad_device
    /\ \E data \in GamepadReports :
        LET gp == gamepad_data
            len == Len(data)
            raw_buttons == Byte(data, 0) + 256 * Byte(data, 1)
            fallback_map == <<"B1", "B2", "B3", "B4", "L1", "R1", "L2", "R2",
                              "S1", "S2", "L3", "R3", "A1">>
            fallback ==
                [gp.event EXCEPT
                   !.buttons = { fallback_map[i + 1] : i \in
                                   { j \in 0..12 : HasBit(raw_buttons, 2 ^ j) } },
                   !.analog = [a \in Axes |->
                       CASE a = "LX" -> Byte(data, 2)
                         [] a = "LY" -> Byte(data, 3)
                         [] a = "RX" /\ len >= 5 -> Byte(data, 4)
                         [] a = "RY" /\ len >= 6 -> Byte(data, 5)
                         [] OTHER -> @[a]]]
            out == IF gp.has_report_map
                   THEN <<process_report_dynamic(gp, data, len)>>
                   ELSE IF len < 4 THEN << >> ELSE <<fallback>>
        IN /\ gamepad_rx' = data
           /\ gamepad_data' = IF out = << >> THEN gp
                              ELSE [gp EXCEPT !.event = out[1]]
           /\ submitted' = out
           /\ player_idx' = PlayerAfterSubmit(player_idx, out)
    /\ call' = "gamepad_process_report"
    /\ UNCHANGED gamepad_device
    /\ UNCHANGED notGamepad

\* gamepad_disconnect(): lines 421-436
gamepad_disconnect ==
    /\ gamepad_device
    /\ gamepad_data' = [gamepad_data EXCEPT
            !.event = init_input_event, !.has_report_map = FALSE,
            !.initialized = FALSE]
    /\ gamepad_device' = FALSE
    /\ player_idx' = -1
    /\ gamepad_rx' = << >>
    /\ submitted' = << >>
    /\ call' = "gamepad_disconnect"
    /\ UNCHANGED notGamepad

NextGamepad ==
    \/ gamepad_init
    \/ bthid_gamepad_set_descriptor
    \/ gamepad_process_report
    \/ gamepad_disconnect

SpecGamepad == Init /\ [][NextGamepad]_vars

(***************************************************************************)
(* GameCube adapter USB device mode (gc_adapter_mode.c)                    *)
(*                                                                         *)
(* The USB device stack is not part of the repository.  Of an endpoint the *)
(* model keeps the busy flag: usbd_edpt_xfer() sets it, the completion of  *)
(* the transfer clears it before the xfer_cb of the class driver is        *)
(* called, and usbd_edpt_claim() fails while it is set.  A bus reset       *)
(* closes the endpoints.                                                   *)
(***************************************************************************)
\* the variables that the GameCube adapter mode does not touch
notGcAdapter ==
    <<driverVars, slotVars, gamepadVars, bitdoDecodeVars, buttonVars, flashVars,
      sinputVars>>

\* the inputs of gc_adapter_mode_send_report: the player, the buttons and
\* the profile output
GcSendInputs ==
    [player_index : {0, 1, 4}, buttons : {{}},
     left_x : {128}, left_y : {128}, right_x : {128}, right_y : {128},
     l2_analog : {0}, r2_analog : {0}]
    \cup
    [player_index : {0, 1, 4}, buttons : {{"B2", "L2"}},
     left_x : {128}, left_y : {0}, right_x : {128}, right_y : {128},
     l2_analog : {0}, r2_analog : {200}]

\* the output reports that the host writes to the OUT endpoint
GcOutReports ==
    { <<17, 1, 0, 0, 0>>, <<17, 0, 1, 0, 0>>, <<17, 16, 0, 0, 0>>,
      <<17, 1, 0>>, <<19>>, << >> }

\* the button bits of a port: lines 274-285
GcButtonMap ==
    [B2 |-> "a", B1 |-> "b", B4 |-> "x", B3 |-> "y", R1 |-> "z", L2 |-> "l",
     R2 |-> "r", S2 |-> "start", DU |-> "dpad_up", DD |-> "dpad_down",
     DL |-> "dpad_left", DR |-> "dpad_right"]

\* the port that a call of gc_adapter_mode_send_report writes: lines 267-268
GcPortOf(player_index) == IF player_index >= 4 THEN 0 ELSE player_index

\* the state of a port for an input: lines 271-300
GcPortState(in) ==
    [status |-> GC_ADAPTER_STATUS_CONNECTED,
     buttons |-> { GcButtonMap[b] : b \in in.buttons \cap DOMAIN GcButtonMap },
     stick_x |-> in.left_x, stick_y |-> 255 - in.left_y,
     cstick_x |-> in.right_x, cstick_y |-> 255 - in.right_y,
     trigger_l |-> IF in.l2_analog = 0 /\ "L2" \in in.buttons
                   THEN 255 ELSE in.l2_analog,
     trigger_r |-> IF in.r2_analog = 0 /\ "R2" \in in.buttons
                   THEN 255 ELSE in.r2_analog]

\* fault variant: the report state is written only once the endpoint has
\* been claimed
GcReportIfClaimed(report, port, in, claimed) ==
    IF claimed THEN [report EXCEPT ![port] = GcPortState(in)] ELSE report

\* gc_adapter_report after a call of gc_adapter_mode_send_report: lines
\* 271-300 write the port before the endpoint is claimed at line 303
GcReportWritten(report, port, in, claimed) ==
    [report EXCEPT ![port] = GcPortState(in)]

\* gc_driver_reset(): lines 69-73, with the bus reset of the stack
gc_driver_reset ==
    /\ gc_itf' = [ep_in |-> 0, ep_out |-> 0, epin_buf |-> << >>]
    /\ gc_ep' = [in_busy |-> FALSE, out_busy |-> FALSE]
    /\ gc_ret' = 0
    /\ gc_hist' = [gc_hist EXCEPT !.outs = 0]
    /\ call' = "gc_driver_reset"
    /\ UNCHANGED <<gc_adapter_report, gc_adapter_rumble, gc_rx, gc_players>>
    /\ UNCHANGED notGcAdapter

\* gc_driver_open(): lines 75-116
gc_driver_open ==
    /\ \E mode \in {"GC_ADAPTER", "HID"} :
        IF mode # "GC_ADAPTER" \/ gc_itf.ep_in # 0
        THEN /\ gc_ret' = 0
             /\ UNCHANGED <<gc_itf, gc_ep>>
        ELSE /\ gc_itf' = [gc_itf EXCEPT !.ep_in = GC_EP_IN, !.ep_out = GC_EP_OUT]
             /\ gc_ep' = [gc_ep EXCEPT !.out_busy = TRUE]
             /\ gc_ret' = 1
    /\ call' = "gc_driver_open"
    /\ UNCHANGED <<gc_adapter_report, gc_adapter_rumble, gc_rx, gc_players,
                   gc_hist>>
    /\ UNCHANGED notGcAdapter

\* gc_adapter_mode_handle_output(): lines 314-341
gc_adapter_mode_handle_output(rumble, report_id, data) ==
    LET id == IF report_id = 0 /\ Len(data) > 0 THEN data[1] ELSE report_id
        d == IF report_id = 0 /\ Len(data) > 0 THEN Tail(data) ELSE data
    IN IF id = GC_ADAPTER_REPORT_ID_RUMBLE /\ Len(d) >= 4
       THEN [rumble |-> [q \in GcPorts |-> d[q + 1] % 2], available |-> TRUE]
       ELSE rumble

\* fault variant: the OUT endpoint is not armed again
gc_driver_xfer_cb_once ==
    /\ gc_itf.ep_out # 0
    /\ gc_ep.out_busy
    /\ \E data \in GcOutReports :
        /\ gc_adapter_rumble' =
               gc_adapter_mode_handle_output(gc_adapter_rumble, 0, data)
        /\ gc_rx' = data
    /\ gc_ep' = [gc_ep EXCEPT !.out_busy = FALSE]
    /\ gc_hist' = [gc_hist EXCEPT !.outs = IF @ < 2 THEN @ + 1 ELSE @]
    /\ gc_ret' = 1
    /\ call' = "gc_driver_xfer_cb"
    /\ UNCHANGED <<gc_itf, gc_adapter_report, gc_players>>
    /\ UNCHANGED notGcAdapter

\* gc_driver_xfer_cb(): lines 202-216, for a transfer of the OUT endpoint
\* that completes with the output report that the host has written
gc_driver_xfer_cb ==
    /\ gc_itf.ep_out # 0
    /\ gc_ep.out_busy
    /\ \E data \in GcOutReports :
        /\ gc_adapter_rumble' =
               gc_adapter_mode_handle_output(gc_adapter_rumble, 0, data)
        /\ gc_rx' = data
    /\ gc_ep' = [gc_ep EXCEPT !.out_busy = TRUE]
    /\ gc_hist' = [gc_hist EXCEPT !.outs = IF @ < 2 THEN @ + 1 ELSE @]
    /\ gc_ret' = 1
    /\ call' = "gc_driver_xfer_cb"
    /\ UNCHANGED <<gc_itf, gc_adapter_report, gc_players>>
    /\ UNCHANGED notGcAdapter

\* gc_driver_xfer_cb(): lines 202-216, for a transfer of the IN endpoint:
\* the input report has been read by the host
gc_driver_xfer_cb_in ==
    /\ gc_itf.ep_in # 0
    /\ gc_ep.in_busy
    /\ gc_ep' = [gc_ep EXCEPT !.in_busy = FALSE]
    /\ gc_ret' = 1
    /\ call' = "gc_driver_xfer_cb_in"
    /\ UNCHANGED <<gc_itf, gc_adapter_report, gc_adapter_rumble, gc_rx,
                   gc_players, gc_hist>>
    /\ UNCHANGED notGcAdapter

\* gc_adapter_mode_send_report(): lines 259-312, called for an open interface
gc_adapter_mode_send_report ==
    /\ gc_itf.ep_in # 0
    /\ \E in \in GcSendInputs :
        LET port == GcPortOf(in.player_index)
            claimed == ~gc_ep.in_busy
            report == GcReportWritten(gc_adapter_report, port, in, claimed)
        IN /\ gc_adapter_report' = report
           /\ gc_hist' = [gc_hist EXCEPT !.last[port] = <<in>>,
                                         !.dropped[port] = ~claimed]
           /\ IF claimed
              THEN /\ gc_itf' = [gc_itf EXCEPT !.epin_buf = <<report>>]
                   /\ gc_ep' = [gc_ep EXCEPT !.in_busy = TRUE]
                   /\ gc_ret' = 1
              ELSE /\ gc_ret' = 0
                   /\ UNCHANGED <<gc_itf, gc_ep>>
    /\ call' = "gc_adapter_mode_send_report"
    /\ UNCHANGED <<gc_adapter_rumble, gc_rx, gc_players>>
    /\ UNCHANGED notGcAdapter

\* gc_adapter_mode_get_feedback(): lines 357-378; the result is << >> for
\* false and the feedback for true
gc_adapter_mode_get_feedback(rumble) ==
    IF ~rumble.available THEN << >>
    ELSE LET r == IF \E q \in GcPorts : rumble.rumble[q] # 0 THEN 255 ELSE 0
         IN <<[rumble_left |-> r, rumble_right |-> r, led_player |-> 0]>>

\* a controller takes or leaves a player slot (players service)
gc_players_change ==
    /\ \E n \in 0..2 :
        /\ n # gc_players.count
        /\ gc_players' = [count |-> n,
               rumble |-> [i \in GcPlayers |->
                              IF i < n THEN gc_players.rumble[i] ELSE 0]]
    /\ call' = "players_change"
    /\ UNCHANGED <<gc_itf, gc_ep, gc_adapter_report, gc_adapter_rumble, gc_ret,
                   gc_rx, gc_hist>>
    /\ UNCHANGED notGcAdapter

\* app_task() of bt2usb: lines 240-254, the feedback of the USB output
\* routed to the players; the calls before do not touch the state of the
\* GameCube adapter mode
gc_app_task ==
    /\ LET f == gc_adapter_mode_get_feedback(gc_adapter_rumble)
       IN /\ gc_adapter_rumble' =
                 [gc_adapter_rumble EXCEPT !.available = FALSE]
          /\ gc_players' = IF f = << >> THEN gc_players
                 ELSE [gc_players EXCEPT !.rumble =
                         [i \in GcPlayers |->
                            IF i < gc_players.count THEN f[1].rumble_left
                            ELSE @[i]]]
          /\ gc_ret' = IF f = << >> THEN 0 ELSE 1
    /\ call' = "app_task"
    /\ UNCHANGED <<gc_itf, gc_ep, gc_adapter_report, gc_rx, gc_hist>>
    /\ UNCHANGED notGcAdapter

\* the class driver and the input reports
NextGcAdapter ==
    \/ gc_driver_reset
    \/ gc_driver_open
    \/ gc_driver_xfer_cb
    \/ gc_driver_xfer_cb_in
    \/ gc_adapter_mode_send_report

SpecGcAdapter == Init /\ [][NextGcAdapter]_vars

\* the output reports and the feedback of the players
NextGcRumble ==
    \/ gc_driver_open
    \/ gc_driver_xfer_cb
    \/ gc_players_change
    \/ gc_app_task

SpecGcRumble == Init /\ [][NextGcRumble]_vars

(***************************************************************************)
(* Decoder of the 8BitDo Ultimate driver applied to one report of a        *)
(* controller that has just connected                                      *)
(***************************************************************************)
\* 11-byte input reports with every hat value, and reports that are dropped
BitdoDecodeReports ==
    { <<REPORT_ID_GAMEPAD, hat, 128, 128, 128, 128, 0, rt, lo, 0, bat>> :
        hat \in 0..15, rt \in {0, 255}, lo \in {0, 1, 65}, bat \in {80, 100} }
    \cup { << >>, <<REPORT_ID_GAMEPAD, 8, 128, 128, 128, 128, 0, 0, 1>>,
           <<1, 8, 128, 128, 128, 128, 0, 0, 1, 0, 80>> }

\* bitdo_process_report(): lines 166-227, for the event that bitdo_init()
\* has initialised
bitdo_decode_report ==
    /\ \E data \in BitdoDecodeReports :
        /\ bitdo_in' = data
        /\ bitdo_out' = IF bitdo_report_dropped(data) THEN << >>
                        ELSE <<bitdo_decode(init_input_event, data)>>
    /\ call' = "bitdo_decode_report"
    /\ UNCHANGED <<driverVars, slotVars, gamepadVars, gcVars, buttonVars,
                   flashVars, sinputVars>>

SpecBitdoDecode == Init /\ [][bitdo_decode_report]_vars

(***************************************************************************)
(* User button (button_esp32.c), the bt2usb app (app.c) and the Bluetooth  *)
(* transport of the ESP32 (bt_transport_esp32.c)                           *)
(*                                                                         *)
(* Two FreeRTOS tasks run: the main task, whose loop calls app_task(), and *)
(* the task "btstack" created by esp32_transport_init(), which runs the    *)
(* BTstack run loop and its timers.  The clock advances by ButtonStepMs;    *)
(* the main loop runs app_task() at least once between two advances.       *)
(***************************************************************************)
ButtonStepMs == 100

\* the variables that the button and the app do not touch
notButton ==
    <<driverVars, slotVars, gamepadVars, gcVars, bitdoDecodeVars, flashVars,
      sinputVars>>

\* a call of a function, by a task
AppCall(api, arg, task) == [api |-> api, arg |-> arg, task |-> task]

\* read_button_debounced(): lines 41-54
read_button_debounced(b, raw) ==
    IF raw # b.last_raw_state /\ b.since_change >= BUTTON_DEBOUNCE_MS
    THEN [b EXCEPT !.last_raw_state = raw, !.since_change = 0]
    ELSE b

\* the state machine of button_task(): lines 106-185; the result is the
\* variables with the event in the field event
ButtonStateMachine(b, pressed) ==
    LET r == b @@ [event |-> "NONE"]
    IN CASE b.state = "IDLE" ->
              IF pressed
              THEN [r EXCEPT !.since_press = 0, !.hold_event_fired = FALSE,
                             !.click_count = 0, !.state = "PRESSED"]
              ELSE r
         [] b.state = "PRESSED" ->
              IF ~pressed
              THEN IF b.since_press < BUTTON_CLICK_MAX_MS
                   THEN IF b.click_count + 1 >= 3
                        THEN [r EXCEPT !.since_release = 0, !.click_count = 0,
                                       !.state = "IDLE",
                                       !.event = "TRIPLE_CLICK"]
                        ELSE [r EXCEPT !.since_release = 0,
                                       !.click_count = @ + 1,
                                       !.state = IF b.click_count + 1 = 2
                                                 THEN "WAIT_TRIPLE"
                                                 ELSE "WAIT_DOUBLE"]
                   ELSE [r EXCEPT !.since_release = 0, !.click_count = 0,
                                  !.state = "IDLE",
                                  !.event = IF b.hold_event_fired
                                            THEN "RELEASE" ELSE "NONE"]
              ELSE IF b.since_press >= BUTTON_HOLD_MS /\ ~b.hold_event_fired
                   THEN [r EXCEPT !.hold_event_fired = TRUE, !.click_count = 0,
                                  !.state = "HELD", !.event = "HOLD"]
                   ELSE r
         [] b.state \in {"WAIT_DOUBLE", "WAIT_TRIPLE"} ->
              IF pressed
              THEN [r EXCEPT !.since_press = 0, !.hold_event_fired = FALSE,
                             !.state = "PRESSED"]
              ELSE IF b.since_release >= BUTTON_DOUBLE_CLICK_MS
                   THEN [r EXCEPT !.click_count = 0, !.state = "IDLE",
                                  !.event = IF b.state = "WAIT_DOUBLE"
                                            THEN "CLICK" ELSE "DOUBLE_CLICK"]
                   ELSE r
         [] OTHER ->
              IF ~pressed
              THEN [r EXCEPT !.click_count = 0, !.state = "IDLE",
                             !.event = "RELEASE"]
              ELSE r

\* button_task(): lines 101-188
button_task(b, raw) ==
    LET d == read_button_debounced(b, raw)
    IN ButtonStateMachine(d, d.last_raw_state)

\* fault variant: a long hold also starts the scan
on_button_event_hold_scans(event, task) ==
    CASE event = "CLICK" ->
           <<AppCall("btstack_host_start_timed_scan", 60000, task)>>
      [] event = "HOLD" ->
           <<AppCall("btstack_host_start_timed_scan", 60000, task),
             AppCall("btstack_host_disconnect_all_devices", 0, task),
             AppCall("btstack_host_delete_all_bonds", 0, task)>>
      [] OTHER -> << >>

\* on_button_event() of bt2usb: app.c lines 81-121, the calls it makes
on_button_event(event, task) ==
    CASE event = "CLICK" ->
           <<AppCall("btstack_host_start_timed_scan", 60000, task)>>
      [] event = "DOUBLE_CLICK" ->
           <<AppCall("tud_task", 0, task),
             AppCall("platform_sleep_ms", 50, task),
             AppCall("tud_task", 0, task),
             AppCall("usbd_get_next_mode", 0, task),
             AppCall("usbd_set_mode", "next", task)>>
      [] event = "TRIPLE_CLICK" ->
           <<AppCall("usbd_reset_to_hid", 0, task)>>
      [] event = "HOLD" ->
           <<AppCall("btstack_host_disconnect_all_devices", 0, task),
             AppCall("btstack_host_delete_all_bonds", 0, task)>>
      [] OTHER -> << >>

\* the gesture that the user completes when the debounced level is observed
\* as pressed: a click is a press shorter than BUTTON_CLICK_MAX_MS, a burst
\* of clicks ends when the button has been up for BUTTON_DOUBLE_CLICK_MS or
\* with the third click, and a hold is a press of BUTTON_HOLD_MS
ButtonObserve(h, pressed) ==
    CASE ~h.down /\ pressed ->
           [h EXCEPT !.down = TRUE, !.down_ms = 0, !.held = FALSE,
                     !.gesture = "none"]
      [] h.down /\ ~pressed ->
           IF ~h.held /\ h.down_ms < BUTTON_CLICK_MAX_MS
           THEN [h EXCEPT !.down = FALSE, !.up_ms = 0,
                          !.clicks = IF h.clicks = 2 THEN 0 ELSE @ + 1,
                          !.gesture = IF h.clicks = 2 THEN "triple" ELSE "none"]
           ELSE [h EXCEPT !.down = FALSE, !.up_ms = 0, !.clicks = 0,
                          !.gesture = "none"]
      [] h.down /\ pressed ->
           IF h.down_ms >= BUTTON_HOLD_MS /\ ~h.held
           THEN [h EXCEPT !.held = TRUE, !.clicks = 0, !.gesture = "hold"]
           ELSE [h EXCEPT !.gesture = "none"]
      [] OTHER ->
           IF h.clicks > 0 /\ h.up_ms >= BUTTON_DOUBLE_CLICK_MS
           THEN [h EXCEPT !.clicks = 0,
                          !.gesture = IF h.clicks = 1 THEN "single" ELSE "double"]
           ELSE [h EXCEPT !.gesture = "none"]

\* the user presses or releases the button
button_gpio_change ==
    /\ button_gpio' = ~button_gpio
    /\ app_calls' = << >>
    /\ call' = "button_gpio_change"
    /\ UNCHANGED <<button, button_polled, button_hist>>
    /\ UNCHANGED notButton

\* platform_time_ms() advances by ButtonStepMs
ButtonTick ==
    /\ button_polled
    /\ button' = [button EXCEPT
          !.since_press = Min(@ + ButtonStepMs, BUTTON_HOLD_MS),
          !.since_release = Min(@ + ButtonStepMs, BUTTON_DOUBLE_CLICK_MS),
          !.since_change = Min(@ + ButtonStepMs, BUTTON_DEBOUNCE_MS)]
    /\ button_hist' = [button_hist EXCEPT
          !.down_ms = Min(@ + ButtonStepMs, BUTTON_HOLD_MS),
          !.up_ms = Min(@ + ButtonStepMs, BUTTON_DOUBLE_CLICK_MS)]
    /\ button_polled' = FALSE
    /\ app_calls' = << >>
    /\ call' = "ButtonTick"
    /\ UNCHANGED button_gpio
    /\ UNCHANGED notButton

\* esp32_transport_task(): bt_transport_esp32.c lines 105-110, no call
esp32_transport_task(task) == << >>

\* app_task() of bt2usb on the ESP32: app.c lines 218-238, called by the
\* loop of the main task; the LED and the feedback of the USB output
\* (gc_app_task) are not part of this state
esp32_app_task ==
    /\ LET r == button_task(button, button_gpio)
       IN /\ button' = [f \in DOMAIN button |-> r[f]]
          /\ app_calls' =
               on_button_event(r.event, "main")
               \o esp32_transport_task("main")
               \o <<AppCall("btstack_classic_get_connection_count", 0, "main"),
                    AppCall("btstack_classic_get_connection_count", 0, "main")>>
          /\ button_hist' = ButtonObserve(button_hist, r.last_raw_state)
    /\ button_polled' = TRUE
    /\ call' = "app_task"
    /\ UNCHANGED button_gpio
    /\ UNCHANGED notButton

\* process_timer_handler(): bt_transport_esp32.c lines 50-58, a timer of the
\* run loop of the task "btstack"
process_timer_handler ==
    /\ app_calls' = <<AppCall("btstack_host_process", 0, "btstack"),
                      AppCall("bthid_task", 0, "btstack"),
                      AppCall("btstack_run_loop_set_timer", 10, "btstack"),
                      AppCall("btstack_run_loop_add_timer", 0, "btstack")>>
    /\ call' = "process_timer_handler"
    /\ UNCHANGED <<button, button_gpio, button_polled, button_hist>>
    /\ UNCHANGED notButton

NextButton ==
    \/ button_gpio_change
    \/ ButtonTick
    \/ esp32_app_task
    \/ process_timer_handler

SpecButton == Init /\ [][NextButton]_vars

(***************************************************************************)
(* Settings storage of the ESP32 (flash_esp32.c)                           *)
(*                                                                         *)
(* The settings are abstracted to one number.  A write to NVS can fail in  *)
(* nvs_set_blob or in nvs_commit.  The clock advances by FlashStepMs.      *)
(***************************************************************************)
FlashStepMs == 2500
\* the writes to NVS of one run
FlashMaxSeq == 3

FlashSettings == {1, 2}

\* the variables that the settings storage does not touch
notFlash ==
    <<driverVars, slotVars, gamepadVars, gcVars, bitdoDecodeVars, buttonVars,
      sinputVars>>

\* flash_save_now(): lines 85-108; the result is the static variables and
\* the blob in NVS
flash_save_now(f, blob, settings, outcome) ==
    IF ~f.nvs_opened THEN [f |-> f, blob |-> blob]
    ELSE LET seq == f.current_sequence + 1
             g == [f EXCEPT !.current_sequence = seq]
         IN IF outcome = "ok"
            THEN [f |-> [g EXCEPT !.save_pending = FALSE],
                  blob |-> <<[settings |-> settings, magic |-> SETTINGS_MAGIC,
                              sequence |-> seq]>>]
            ELSE [f |-> g, blob |-> blob]

\* flash_load(): lines 59-75; the result is whether it succeeded, the
\* settings read and the static variables
flash_load(f, blob) ==
    IF ~f.nvs_opened \/ blob = << >> \/ blob[1].magic # SETTINGS_MAGIC
    THEN [ok |-> FALSE, settings |-> FlashDefaults, f |-> f]
    ELSE [ok |-> TRUE, settings |-> blob[1].settings,
          f |-> [f EXCEPT !.current_sequence = blob[1].sequence]]

\* flash_init(): lines 32-57
flash_init ==
    /\ ~flash_hist.inited
    /\ \E opened \in BOOLEAN :
        LET f == [flash_store EXCEPT
                     !.save_pending = FALSE, !.nvs_opened = opened]
            r == flash_load(f, nvs_blob)
        IN flash_store' =
             IF ~opened THEN f
             ELSE [r.f EXCEPT
                     !.runtime_settings =
                         IF r.ok THEN r.settings ELSE FlashDefaults,
                     !.runtime_settings_loaded = TRUE]
    /\ flash_hist' = [flash_hist EXCEPT !.inited = TRUE]
    /\ call' = "flash_init"
    /\ UNCHANGED nvs_blob
    /\ UNCHANGED notFlash

\* fault variant: a save while one is pending does not restart the debounce
flash_save_no_restart ==
    /\ flash_hist.inited
    /\ \E settings \in FlashSettings :
        /\ flash_store' = [flash_store EXCEPT
              !.pending_settings = <<settings>>, !.save_pending = TRUE,
              !.since_change = IF flash_store.save_pending THEN @ ELSE 0]
        /\ flash_hist' = [flash_hist EXCEPT
              !.since_save = 0, !.last = <<settings>>,
              !.restarted = @ \/ (/\ flash_store.save_pending
                                  /\ flash_store.since_change > 0
                                  /\ flash_store.since_change < SAVE_DEBOUNCE_MS)]
    /\ call' = "flash_save"
    /\ UNCHANGED nvs_blob
    /\ UNCHANGED notFlash

\* flash_save(): lines 77-83
flash_save ==
    /\ flash_hist.inited
    /\ \E settings \in FlashSettings :
        /\ flash_store' = [flash_store EXCEPT
              !.pending_settings = <<settings>>, !.save_pending = TRUE,
              !.since_change = 0]
        /\ flash_hist' = [flash_hist EXCEPT
              !.since_save = 0, !.last = <<settings>>,
              !.restarted = @ \/ (/\ flash_store.save_pending
                                  /\ flash_store.since_change > 0
                                  /\ flash_store.since_change < SAVE_DEBOUNCE_MS)]
    /\ call' = "flash_save"
    /\ UNCHANGED nvs_blob
    /\ UNCHANGED notFlash

\* flash_save_force(): lines 110-113
flash_save_force ==
    /\ flash_hist.inited
    /\ flash_store.current_sequence < FlashMaxSeq
    /\ \E settings \in FlashSettings, outcome \in {"ok", "set_failed"} :
        LET r == flash_save_now(flash_store, nvs_blob, settings, outcome)
        IN /\ flash_store' = r.f
           /\ nvs_blob' = r.blob
    /\ call' = "flash_save_force"
    /\ UNCHANGED flash_hist
    /\ UNCHANGED notFlash

\* flash_task(): lines 115-123
flash_task ==
    /\ flash_hist.inited
    /\ flash_store.current_sequence < FlashMaxSeq
    /\ \E outcome \in {"ok", "set_failed", "commit_failed"} :
        LET r == IF /\ flash_store.save_pending
                    /\ flash_store.since_change >= SAVE_DEBOUNCE_MS
                 THEN flash_save_now(flash_store, nvs_blob,
                                     flash_store.pending_settings[1], outcome)
                 ELSE [f |-> flash_store, blob |-> nvs_blob]
        IN /\ flash_store' = r.f
           /\ nvs_blob' = r.blob
    /\ call' = "flash_task"
    /\ UNCHANGED flash_hist
    /\ UNCHANGED notFlash

\* platform_time_ms() advances by FlashStepMs
FlashTick ==
    /\ flash_store' = [flash_store EXCEPT
          !.since_change = Min(@ + FlashStepMs, SAVE_DEBOUNCE_MS)]
    /\ flash_hist' = [flash_hist EXCEPT
          !.since_save = Min(@ + FlashStepMs, SAVE_DEBOUNCE_MS)]
    /\ call' = "FlashTick"
    /\ UNCHANGED nvs_blob
    /\ UNCHANGED notFlash

NextFlash ==
    \/ flash_init
    \/ flash_save
    \/ flash_save_force
    \/ flash_task
    \/ FlashTick

SpecFlash == Init /\ [][NextFlash]_vars

(***************************************************************************)
(* The settings storage with its two writers: the profile selection, which *)
(* saves the runtime settings, and the orientation hotkey of the Wiimote,  *)
(* which saves a copy of the settings that it has loaded from NVS.         *)
(***************************************************************************)
\* the settings that an earlier run has left in NVS: one custom profile, the
\* default profile active
FlashStoredSettings == [FlashDefaults EXCEPT !.custom_profile_count = 1]

\* the profile indexes that a caller asks for
FlashProfileIndexes == 0 .. 2

\* the state after flash_init() (lines 32-57) has opened NVS and has loaded
\* the settings of the earlier run
InitSettings ==
    /\ now = 0
    /\ polled = FALSE
    /\ submitted = << >>
    /\ tx = << >>
    /\ player_idx = -1
    /\ fb = FeedbackInit
    /\ wii_u_data = WiiUDataInit
    /\ wii_u_device = FALSE
    /\ wii_u_hist = WiiUHistInit
    /\ wiimote_data = WiimoteDataInit
    /\ wiimote_device = FALSE
    /\ wiimote_orient_mode = WII_ORIENT_MODE_AUTO
    /\ wiimote_hist = WiimoteHistInit
    /\ rx = WiimoteNoReport
    /\ flash = FlashInit
    /\ Switch2Init
    /\ BitdoInit
    /\ call = "flash_init"
    /\ fb_hist = FeedbackHistInit
    /\ HostInit
    /\ HotkeysInit
    /\ SlotsInit
    /\ GamepadInit
    /\ GcAdapterInit
    /\ BitdoDecodeInit
    /\ ButtonInit
    /\ flash_store = [nvs_opened |-> TRUE, save_pending |-> FALSE,
                      since_change |-> 0, pending_settings |-> << >>,
                      current_sequence |-> 1,
                      runtime_settings |-> FlashStoredSettings,
                      runtime_settings_loaded |-> TRUE]
    /\ nvs_blob = <<[settings |-> FlashStoredSettings,
                     magic |-> SETTINGS_MAGIC, sequence |-> 1]>>
    /\ flash_hist = [inited |-> TRUE, since_save |-> 0, last |-> << >>,
                     restarted |-> FALSE]
    /\ SInputInit

\* flash_save() (lines 77-83) of the given settings; the result is the static
\* variables
FlashQueue(f, settings) ==
    [f EXCEPT !.pending_settings = <<settings>>, !.save_pending = TRUE,
              !.since_change = 0]

\* the history of a flash_save() of the given settings
FlashQueueHist(h, f, settings) ==
    [h EXCEPT !.since_save = 0, !.last = <<settings>>,
              !.restarted = @ \/ (/\ f.save_pending
                                  /\ f.since_change > 0
                                  /\ f.since_change < SAVE_DEBOUNCE_MS)]

\* flash_set_active_profile_index(): lines 192-202
flash_set_active_profile_index ==
    /\ \E index \in FlashProfileIndexes :
        LET rs == flash_store.runtime_settings
            clamped == Min(index, rs.custom_profile_count)
            new == [rs EXCEPT !.active_profile_index = clamped]
            f == [flash_store EXCEPT !.runtime_settings = new]
        IN IF ~flash_store.runtime_settings_loaded
              \/ rs.active_profile_index = clamped
           THEN UNCHANGED <<flash_store, flash_hist>>
           ELSE /\ flash_store' = FlashQueue(f, new)
                /\ flash_hist' = FlashQueueHist(flash_hist, flash_store, new)
    /\ call' = "flash_set_active_profile_index"
    /\ UNCHANGED nvs_blob
    /\ UNCHANGED notFlash

\* The orientation hotkey of the Wiimote on a change of the mode:
\* wiimote_bt.c lines 398-408
wiimote_orient_hotkey_save ==
    /\ \E new_mode \in {WII_ORIENT_MODE_AUTO, WII_ORIENT_MODE_HORIZONTAL,
                         WII_ORIENT_MODE_VERTICAL} :
        /\ new_mode # wiimote_orient_mode
        /\ wiimote_orient_mode' = new_mode
        /\ LET r == flash_load(flash_store, nvs_blob)
               flash_data == [r.settings EXCEPT !.wiimote_orient_mode = new_mode]
           IN IF r.ok
              THEN /\ flash_store' = FlashQueue(r.f, flash_data)
                   /\ flash_hist' =
                        FlashQueueHist(flash_hist, flash_store, flash_data)
              ELSE UNCHANGED <<flash_store, flash_hist>>
    /\ call' = "wiimote_orient_hotkey_save"
    /\ UNCHANGED nvs_blob
    /\ UNCHANGED <<now, polled, submitted, tx, player_idx, fb, wiiuVars,
                   wiimote_data, wiimote_device, wiimote_hist, rx, flash,
                   switch2_data, switch2_device, switch2_hist, bitdo_data,
                   bitdo_device, fb_hist, gc_host, n64_host, hotkeyVars>>
    /\ UNCHANGED <<slotVars, gamepadVars, gcVars, bitdoDecodeVars, buttonVars,
                   sinputVars>>

NextSettings ==
    \/ flash_set_active_profile_index
    \/ wiimote_orient_hotkey_save
    \/ flash_task
    \/ FlashTick

SpecSettings == InitSettings /\ [][NextSettings]_vars

(***************************************************************************)
(* Feedback output of the SInput USB host driver (sinput_host.c)           *)
(*                                                                         *)
(* The main loop calls the task of each mounted device in turn.  The clock *)
(* advances by SInputStepMs between any two calls.  The test pattern of    *)
(* the output config is off.                                               *)
(***************************************************************************)
SInputStepMs == 10

\* the rumble values of the feedback state
SInputRumbles == {<<0, 0>>, <<255, 128>>}

\* the feedback that a device can be given: without a player there is no
\* feedback state; device d gets player d - 1
SInputFeedbacks(d) ==
    {SInputNoFeedback} \cup
    [player_index : {d - 1}, rumble : SInputRumbles, led : {"ZERO", "RGB"}]

\* the variables that the SInput driver does not touch
notSInput ==
    <<driverVars, slotVars, gamepadVars, gcVars, bitdoDecodeVars, buttonVars,
      flashVars>>

\* the fallback colour of task_sinput_host: lines 191-200
SInputDefaultLed(n) ==
    CASE n = 1 -> "LED_P1"
      [] n = 2 -> "LED_P2"
      [] n = 3 -> "LED_P3"
      [] n = 4 -> "LED_P4"
      [] n = 5 -> "LED_P5"
      [] n = 6 -> "LED_P6"
      [] n = 7 -> "LED_P7"
      [] OTHER -> "LED_DEFAULT"

\* the output that task_sinput_host derives for a device: lines 174-201
SInputWanted(f) ==
    [rumble_left |-> IF f.player_index >= 0 THEN f.rumble[1] ELSE 0,
     rumble_right |-> IF f.player_index >= 0 THEN f.rumble[2] ELSE 0,
     player |-> IF f.player_index >= 0 THEN f.player_index + 1 ELSE 0,
     led |-> IF f.player_index >= 0 /\ f.led # "ZERO"
             THEN f.led ELSE SInputDefaultLed(f.player_index + 1)]

\* task_sinput_host(): lines 163-259; the result is the time since start_ms,
\* the cached output state and the reports sent
SInputTask(d, inst, f, age) ==
    IF age < interval_ms
    THEN [start |-> age, inst |-> inst, sent |-> << >>]
    ELSE LET w == SInputWanted(f)
             haptic ==
                 IF inst.rumble_left # w.rumble_left
                    \/ inst.rumble_right # w.rumble_right
                 THEN <<[dev |-> d, command |-> "SINPUT_CMD_HAPTIC",
                         data |-> <<2, w.rumble_left, w.rumble_right>>]>>
                 ELSE << >>
             player ==
                 IF inst.player # w.player
                 THEN <<[dev |-> d, command |-> "SINPUT_CMD_PLAYER_LED",
                         data |-> <<w.player>>]>>
                 ELSE << >>
             rgb ==
                 IF inst.led # w.led
                 THEN <<[dev |-> d, command |-> "SINPUT_CMD_RGB_LED",
                         data |-> <<w.led>>]>>
                 ELSE << >>
         IN [start |-> 0, inst |-> w, sent |-> haptic \o player \o rgb]

\* init_sinput_host(): lines 37-49
init_sinput_host ==
    /\ \E d \in SInputDevs \ sinput_mounted :
        /\ sinput_devices' =
              [sinput_devices EXCEPT ![d] = [SInputInstanceZero EXCEPT !.player = 255]]
        /\ sinput_mounted' = sinput_mounted \cup {d}
        /\ sinput_sent' = <<[dev |-> d, command |-> "SINPUT_CMD_FEATURES",
                             data |-> << >>]>>
    /\ call' = "init_sinput_host"
    /\ UNCHANGED <<sinput_start, sinput_fb, sinput_pos>>
    /\ UNCHANGED notSInput

\* a player is assigned to a mounted device or taken from it, or the
\* feedback state of its player changes
SInputFeedback ==
    /\ \E d \in sinput_mounted : \E f \in SInputFeedbacks(d) :
        /\ f # sinput_fb[d]
        /\ sinput_fb' = [sinput_fb EXCEPT ![d] = f]
    /\ sinput_sent' = << >>
    /\ call' = "SInputFeedback"
    /\ UNCHANGED <<sinput_start, sinput_devices, sinput_mounted, sinput_pos>>
    /\ UNCHANGED notSInput

\* the device whose task the main loop calls next: the mounted devices in
\* the order of their addresses, again and again
SInputNextDev(pos, mounted) ==
    LET later == {d \in mounted : d > pos}
        from == IF later # {} THEN later ELSE mounted
    IN CHOOSE d \in from : \A o \in from : d <= o

\* the main loop calls task_sinput_host for the next mounted device
task_sinput_host ==
    /\ sinput_mounted # {}
    /\ LET d == SInputNextDev(sinput_pos, sinput_mounted)
           r == SInputTask(d, sinput_devices[d], sinput_fb[d], sinput_start)
       IN /\ sinput_start' = r.start
          /\ sinput_devices' = [sinput_devices EXCEPT ![d] = r.inst]
          /\ sinput_sent' = r.sent
          /\ sinput_pos' = d
    /\ call' = "task_sinput_host"
    /\ UNCHANGED <<sinput_mounted, sinput_fb>>
    /\ UNCHANGED notSInput

\* to_ms_since_boot() advances by SInputStepMs
SInputTick ==
    /\ sinput_start' = Min(sinput_start + SInputStepMs, interval_ms)
    /\ sinput_sent' = << >>
    /\ call' = "SInputTick"
    /\ UNCHANGED <<sinput_devices, sinput_mounted, sinput_fb, sinput_pos>>
    /\ UNCHANGED notSInput

NextSInput ==
    \/ init_sinput_host
    \/ SInputFeedback
    \/ task_sinput_host
    \/ SInputTick

SpecSInput == Init /\ [][NextSInput]_vars

\* The main loop never stops calling the tasks, and time passes.
SpecSInputFair ==
    /\ Init
    /\ [][NextSInput]_vars
    /\ WF_vars(task_sinput_host)
    /\ WF_vars(SInputTick)

(***************************************************************************)
(* Properties of the Wii U Pro driver                                      *)
(***************************************************************************)
\* C1: every event passed to router_submit_input has its four stick axes in
\* 1..255 and its two trigger axes in 0..255
SubmittedAxesInRange ==
    \A i \in 1..Len(submitted) :
        /\ \A a \in StickAxes : submitted[i].analog[a] \in 1..255
        /\ \A a \in TriggerAxes : submitted[i].analog[a] \in 0..255

IsPrefix(s, t) == Len(s) <= Len(t) /\ \A i \in 1..Len(s) : s[i] = t[i]

\* the documented command sequence of the connect flow
WiiUHappySeq ==
    <<WiiUCmdStatusReq, WiiUCmdExtInit1, WiiUCmdExtInit2, WiiUCmdReadExtType,
      WiiUCmdReportMode, wii_u_set_leds(1)>>

\* C2: a connected Wii U Pro driver whose controller never answers reaches
\* READY (unless the controller disconnects first), provided the task keeps
\* finding the transport free
WiiUReachesReady ==
    (wii_u_device /\ wii_u_data.state = WII_U_STATE_WAIT_INIT)
        ~> (wii_u_data.state = WII_U_STATE_READY \/ ~wii_u_device)

WiiUReachesReadyWitness ==
    /\ wii_u_device
    /\ wii_u_data.state = WII_U_STATE_READY
    /\ ~wii_u_hist.happy
    /\ now = 0

\* a step in which a waiting step of the connect machine timed out: only the
\* timeout branch changes init_retries of a connected device
WiiUTimedOut ==
    /\ wii_u_device /\ wii_u_device'
    /\ wii_u_data'.init_retries # wii_u_data.init_retries

\* C3: a command of the connect machine is sent at most 5 times in a row, an
\* attempt is given up or repeated only once its 1 s timeout has run, and the
\* step is abandoned when the retry counter reaches 5
WiiURetryLimit ==
    [][/\ wii_u_hist'.attempts <= 5
       /\ WiiUTimedOut =>
            /\ wii_u_data.state \in WiiUWaitStates
            /\ wii_u_hist.since_send >= Ticks(1000)
            /\ IF wii_u_data.init_retries + 1 < 5
               THEN /\ wii_u_data'.state = wii_u_data.state - 1
                    /\ wii_u_data'.init_retries = wii_u_data.init_retries + 1
               ELSE /\ wii_u_data'.state = wii_u_data.state + 1
                    /\ wii_u_data'.init_retries = 0]_vars

WiiURetryLimitWitness ==
    /\ wii_u_device
    /\ wii_u_data.state = WII_U_STATE_SEND_EXT_INIT1
    /\ wii_u_hist.last = WiiUCmdStatusReq
    /\ wii_u_hist.attempts = 5
    /\ wii_u_data.init_retries = 0
    /\ ~wii_u_hist.happy

\* C4: as long as the connection follows the documented flow the commands sent
\* are, in order and without repetition, those of the documented sequence, and
\* at READY all six have been sent
WiiUHappyOrder ==
    (wii_u_device /\ wii_u_hist.happy) =>
        /\ IsPrefix(wii_u_hist.steps, WiiUHappySeq)
        /\ wii_u_hist.attempts <= 1
        /\ wii_u_data.state = WII_U_STATE_READY => wii_u_hist.steps = WiiUHappySeq

WiiUHappyOrderWitness ==
    /\ wii_u_device
    /\ wii_u_hist.happy
    /\ wii_u_data.state = WII_U_STATE_READY
    /\ wii_u_hist.steps = WiiUHappySeq

WiiUKeepalive ==
    [][(wii_u_device /\ wii_u_data.state = WII_U_STATE_READY) =>
        /\ (~polled /\ polled' /\ wii_u_hist.since_ka >= Ticks(30000))
              => (\E i \in 1..Len(tx') : tx'[i] = WiiUCmdStatusReq)
        /\ ((\E i \in 1..Len(tx') : tx'[i] = WiiUCmdStatusReq) /\ wii_u_hist.ka_sent)
              => wii_u_hist.since_ka >= Ticks(30000)]_vars

(***************************************************************************)
(* Properties of the Wiimote driver                                        *)
(***************************************************************************)
\* a wiimote_task() call that leaves a waiting step of the connect machine
WiimoteWaitLeft ==
    /\ wiimote_device /\ wiimote_device'
    /\ rx' = WiimoteNoReport
    /\ wiimote_data.state \in WiimoteWaitStates
    /\ wiimote_data'.state # wiimote_data.state

\* C6: a waiting step of the Wiimote connect machine is left by the task only
\* when the 1 s timeout of its command has run, and then for the following
\* step of the machine or, after a status request, for a repetition; no command
\* is sent more than 5 times in a row
WiimoteStepTimeout ==
    [][/\ wiimote_hist'.attempts <= 5
       /\ WiimoteWaitLeft =>
            /\ wiimote_hist.since_send >= Ticks(1000)
            /\ IF wiimote_data.state = WII_STATE_WAIT_STATUS
               THEN IF wiimote_data.init_retries + 1 < 5
                    THEN /\ wiimote_data'.state = WII_STATE_SEND_STATUS_REQ
                         /\ wiimote_data'.init_retries = wiimote_data.init_retries + 1
                    ELSE /\ wiimote_data'.state = WII_STATE_SEND_REPORT_MODE
                         /\ wiimote_data'.init_retries = 0
               ELSE wiimote_data'.state = wiimote_data.state + 1
       /\ (/\ wiimote_device /\ wiimote_device' /\ rx' = WiimoteNoReport
           /\ tx' = << >> /\ wiimote_data'.init_time = wiimote_data.init_time
           /\ wiimote_data.state \in WiimoteWaitStates
           /\ wiimote_hist.since_send >= Ticks(1000)
           /\ wiimote_hist'.since_send >= Ticks(1000))
          => wiimote_data'.state # wiimote_data.state]_vars

WiimoteStepTimeoutWitness ==
    /\ wiimote_device
    /\ wiimote_data.state = WII_STATE_SEND_REPORT_MODE
    /\ wiimote_hist.last = WiimoteCmdStatusReq
    /\ wiimote_hist.attempts = 5
    /\ wiimote_data.init_retries = 0

\* a status report with the extension flag set has just been processed
WiimoteStatusExt(flag) ==
    /\ wiimote_device
    /\ rx' = WiimoteStatus(4, flag)
    /\ rx' # rx \/ wiimote_data' # wiimote_data

\* C8 as stated: whenever a status report with ext=1 is processed, the driver
\* is at the first extension write afterwards
WiimoteStatusAlwaysRestarts ==
    [][WiimoteStatusExt(TRUE) =>
         wiimote_data'.state = WII_STATE_SEND_EXT_INIT1]_vars

\* C8: a status report with ext=1 restarts the extension steps when it arrives
\* in WAIT_STATUS, or in READY while no extension is marked connected, and in
\* no other case; after a restart the commands sent are the write of 0x55 to
\* 0xA400F0, the write of 0x00 to 0xA400FB and the read of 6 bytes at 0xA400FA,
\* in that order
WiimoteStatusRestarts ==
    [][/\ WiimoteStatusExt(TRUE) =>
            IF \/ wiimote_data.state = WII_STATE_WAIT_STATUS
               \/ /\ wiimote_data.state = WII_STATE_READY
                  /\ ~wiimote_data.extension_connected
            THEN /\ wiimote_data'.state = WII_STATE_SEND_EXT_INIT1
                 /\ wiimote_data'.extension_connected
                 /\ wiimote_hist'.restarted
                 /\ wiimote_hist'.chain = << >>
            ELSE /\ wiimote_data' = wiimote_data
                 /\ wiimote_hist' = wiimote_hist
       /\ wiimote_hist'.restarted =>
            /\ IsPrefix(wiimote_hist'.chain, WiimoteExtChain)
            /\ wiimote_data'.state > WII_STATE_WAIT_EXT_TYPE
                  => wiimote_hist'.chain = WiimoteExtChain]_vars

WiimoteStatusRestartsWitness ==
    /\ wiimote_device
    /\ wiimote_hist.restarted
    /\ wiimote_hist.chain = WiimoteExtChain
    /\ wiimote_data.ext_type = WII_EXT_NUNCHUK
    /\ player_idx >= 0

WiimoteOrientHysteresis ==
    [][(/\ wiimote_device
        /\ WiimoteIsButtons(rx')
        /\ rx' # rx \/ wiimote_data' # wiimote_data
        /\ wiimote_orient_mode' = WII_ORIENT_MODE_AUTO)
       => LET x_dev == IF rx'.accel_x >= 128 THEN rx'.accel_x - 128
                       ELSE 128 - rx'.accel_x
              has_accel == /\ rx'.id \in {49, 51, 53, 55}
                           /\ rx'.len >= 6
          IN  wiimote_data'.orientation =
                IF has_accel /\ x_dev >= 20 THEN WII_ORIENT_HORIZONTAL
                ELSE IF has_accel /\ x_dev < 12 THEN WII_ORIENT_VERTICAL
                ELSE wiimote_data.orientation]_vars

WiimoteOrientHysteresisWitness ==
    /\ wiimote_device
    /\ wiimote_orient_mode = WII_ORIENT_MODE_AUTO
    /\ rx.id = WII_REPORT_BUTTONS_ACC /\ rx.len = 6 /\ rx.accel_x = 116
    /\ wiimote_data.orientation = WII_ORIENT_VERTICAL

\* the core buttons of a report, those of an orientation hotkey left out
WiimoteCoreButtons(r) ==
    LET raw == WiimoteRawButtons(r.b1, r.b2)
        core == MappedButtons(raw, WiimoteCoreMap)
    IN  IF "S2" \in core /\ core \cap {"DU", "DD", "DL", "DR"} # {}
        THEN core \ {"S2", "DU", "DD", "DL", "DR"} ELSE core

WiimoteHotkeySaves ==
    [][(/\ wiimote_device
        /\ WiimoteIsButtons(rx')
        /\ rx' # rx \/ wiimote_data' # wiimote_data)
       => LET raw == WiimoteRawButtons(rx'.b1, rx'.b2)
              dir(mask) == HasBit(raw, mask)
              pressed == /\ HasBit(raw, WII_BTN_PLUS)
                         /\ \E k \in {WII_BTN_UP, WII_BTN_DOWN, WII_BTN_LEFT,
                                      WII_BTN_RIGHT} : dir(k)
                         /\ ~wiimote_data.orient_hotkey_active
          IN  /\ wiimote_orient_mode' =
                   IF ~pressed THEN wiimote_orient_mode
                   ELSE IF dir(WII_BTN_UP) THEN WII_ORIENT_MODE_VERTICAL
                   ELSE IF dir(WII_BTN_RIGHT) THEN WII_ORIENT_MODE_HORIZONTAL
                   ELSE WII_ORIENT_MODE_AUTO
              /\ wiimote_orient_mode' # wiimote_orient_mode
                   => /\ flash'.save_pending
                      /\ flash'.pending_orient_mode = wiimote_orient_mode']_vars

(***************************************************************************)
(* Properties of the Switch 2 driver                                       *)
(***************************************************************************)
\* C13: an event reaches the router only after the connection it comes from
\* has had 4 valid reports consumed by the calibration, i.e. with its fifth
\* valid report at the earliest; this holds for every connection, also one
\* that takes a slot used before
Switch2CalibratesFirst ==
    \A i \in 1..Len(submitted) :
        switch2_hist[submitted[i].dev_addr].valid > 4

\* a connection into a slot used before submits the event of its fifth report
Switch2CalibratesFirstWitness ==
    \E d \in Switch2Slots :
        /\ switch2_hist[d].reused
        /\ switch2_hist[d].valid = 5
        /\ submitted # << >>
        /\ submitted[1].dev_addr = d
        /\ "B1" \in submitted[1].buttons

\* C14: once a connection is calibrated, each stick centre is the average of
\* the raw values of its first 4 reports (to within the rounding of one unit)
Switch2Sum(h, a) == h.raw[1][a] + h.raw[2][a] + h.raw[3][a] + h.raw[4][a]

Switch2IsAverage(c, sum) == (4 * c > sum - 4) /\ (4 * c < sum + 4)

Switch2CentersAreAverage ==
    \A d \in Switch2Slots :
        (switch2_device[d] # -1 /\ switch2_data[switch2_device[d]].cal_samples >= 4)
        => LET s == switch2_data[switch2_device[d]]
               h == switch2_hist[d]
           IN  /\ Switch2IsAverage(s.cal_lx_center, Switch2Sum(h, "LX"))
               /\ Switch2IsAverage(s.cal_ly_center, Switch2Sum(h, "LY"))
               /\ Switch2IsAverage(s.cal_rx_center, Switch2Sum(h, "RX"))
               /\ Switch2IsAverage(s.cal_ry_center, Switch2Sum(h, "RY"))

(***************************************************************************)
(* Properties of the feedback path                                         *)
(***************************************************************************)
\* C15: for each write of the feedback state of a player (a change that sets
\* the dirty flag), the task of the source driver transmits rumble at most
\* once and the LED at most once, however many task ticks follow
FeedbackAtMostOnce == fb_hist.rumble <= 1 /\ fb_hist.led <= 1

\* the 8BitDo task has transmitted the rumble once, and a later task tick with
\* the rumble still on has transmitted nothing
FeedbackAtMostOnceWitness ==
    /\ call = "bitdo_task"
    /\ fb_hist.rumble = 1
    /\ fb.rumble_left = 255
    /\ ~fb.rumble_dirty
    /\ tx = << >>

\* C16: a task tick of the 8BitDo driver at which the cached last-sent values
\* differ from the feedback state of its player sends output report 0x05 with
\* both motors scaled from 0..255 to 0..100
BitdoSendsRumble ==
    [][(/\ call' = "bitdo_task"
        /\ bitdo_device
        /\ player_idx >= 0
        /\ \/ fb.rumble_left # bitdo_data.rumble_left
           \/ fb.rumble_right # bitdo_data.rumble_right)
       => tx' = <<[id |-> 5,
                   buf |-> <<(fb.rumble_left * 100) \div 255,
                             (fb.rumble_right * 100) \div 255, 0, 0>>]>>]_vars

\* the report with both motors on has been sent: 255 -> 100, 128 -> 50
BitdoSendsRumbleWitness ==
    /\ call = "bitdo_task"
    /\ fb.rumble_left = 255
    /\ fb.rumble_right = 128
    /\ tx = <<[id |-> 5, buf |-> <<100, 50, 0, 0>>]>>

(***************************************************************************)
(* Properties of the native host drivers                                   *)
(***************************************************************************)
\* C20: a port that was connected is declared disconnected only by a poll
\* that is at least the 30th failed poll in a row, and a poll that returns
\* data sets the count of the debounce back to 0
HostDisconnectDebounced ==
    [][/\ (gc_host.was_connected /\ ~gc_host'.was_connected)
            => gc_host'.fails >= 30
       /\ (n64_host.connected_polls > 0 /\ n64_host'.connected_polls = 0)
            => n64_host'.fails >= 30
       /\ (call' = "gc_host_task" /\ gc_host'.fails = 0)
            => gc_host'.disconnect_debounce = 0
       /\ (call' = "n64_host_task" /\ n64_host'.fails = 0)
            => n64_host'.disconnect_debounce = 0]_vars

\* a GameCube port has been declared disconnected and the neutral event sent
HostDisconnectDebouncedWitness ==
    /\ call = "gc_host_task"
    /\ gc_host.initialized
    /\ ~gc_host.was_connected
    /\ gc_host.fails = 30
    /\ gc_host.prev_buttons = {}
    /\ Len(submitted) = 1

\* the event that a native host submits for a port it declares disconnected
HostNeutralEvent ==
    [buttons |-> {},
     analog |-> [x \in Axes |-> IF x \in StickAxes THEN 128 ELSE 0],
     battery_level |-> 0]

\* C21: the poll that declares a port disconnected submits the neutral event
\* and nothing else, and every other poll that returns no data (a run of
\* failed polls below the threshold, or a port that is already disconnected)
\* submits nothing.
HostNeutralOnDisconnect ==
    [][/\ call' = "gc_host_task" /\ gc_host'.fails > 0
            => submitted' = IF gc_host.was_connected /\ ~gc_host'.was_connected
                            THEN <<HostNeutralEvent>> ELSE << >>
       /\ call' = "n64_host_task" /\ n64_host'.fails > 0
            => submitted' = IF /\ n64_host.connected_polls > 0
                               /\ n64_host'.connected_polls = 0
                            THEN <<HostNeutralEvent>> ELSE << >>]_vars

\* an N64 port has been declared disconnected after 30 failed polls, and the
\* neutral event is the one event submitted
HostNeutralOnDisconnectWitness ==
    /\ call = "n64_host_task"
    /\ n64_host.initialized
    /\ n64_host.connected_polls = 0
    /\ n64_host.disconnect_debounce = 0
    /\ n64_host.fails = 30
    /\ n64_host.prev_buttons = {}
    /\ submitted = <<HostNeutralEvent>>

(***************************************************************************)
(* Properties of the hotkey service                                        *)
(***************************************************************************)
\* hotkey i is registered and active, and w is the one its callback names
HotkeyLive(w, i) ==
    /\ i < Len(registered_hotkeys)
    /\ hotkey_active[i]
    /\ registered_hotkeys[i + 1].global <=> w = HOTKEY_GLOBAL

\* C17: while the combo of an ON_HOLD hotkey is held, its callback has been
\* invoked once in this hold if the checks have seen the combo held for
\* duration_ms, and not at all otherwise.
HotkeyHoldFiresOnce ==
    \A w \in HotkeyWho, i \in HotkeyIds :
        LET o == hotkey_hist.holds[w][i]
        IN (/\ HotkeyLive(w, i)
            /\ registered_hotkeys[i + 1].trigger = "ON_HOLD"
            /\ o.held)
           => o.fires = IF o.due THEN 1 ELSE 0

\* C18: in the step that sees the combo of a hotkey released after t ms, an
\* ON_TAP hotkey invokes its callback iff t < duration_ms and an ON_RELEASE
\* hotkey iff t >= duration_ms.
HotkeyReleaseFires ==
    \A w \in HotkeyWho, i \in HotkeyIds :
        LET t == hotkey_hist.holds[w][i].rel
            h == registered_hotkeys[i + 1]
            cb == \E f \in fired : f.id = i /\ f.player = w
        IN (HotkeyLive(w, i) /\ t >= 0)
           => /\ h.trigger = "ON_TAP" => (cb <=> t < h.duration_ms)
              /\ h.trigger = "ON_RELEASE" => (cb <=> t >= h.duration_ms)

\* C19: when each player that holds buttons has reported them once since the
\* last global check, a global check holds a global hotkey matched iff the
\* buttons of its combo are all in the union of the players' buttons.
HotkeyGlobalMatchesUnion ==
    [][(/\ call' = "hotkeys_check_global"
        /\ \A p \in HotkeyPlayers :
              \/ hotkey_hist.frame[p] = 1
              \/ hotkey_hist.frame[p] = 0 /\ player_state[p].held_buttons = {})
       => \A i \in HotkeyIds :
             HotkeyLive(HOTKEY_GLOBAL, i)
             => (global_state'.holding[i]
                 <=> registered_hotkeys[i + 1].buttons \subseteq
                       UNION {player_state[p].held_buttons :
                                p \in HotkeyPlayers})]_vars

\* a global check has matched a combo that two players hold together, after
\* an earlier check had matched it and seen it released
HotkeyGlobalMatchesUnionWitness ==
    /\ call = "hotkeys_check_global"
    /\ \E i \in HotkeyIds :
          /\ HotkeyLive(HOTKEY_GLOBAL, i)
          /\ global_state.holding[i]
          /\ hotkey_hist.holds[HOTKEY_GLOBAL][i].since > 0
    /\ player_state[0].held_buttons = {"S1"}
    /\ player_state[1].held_buttons = {"S2"}

(***************************************************************************)
(* Properties of the slots of a Bluetooth driver                           *)
(***************************************************************************)
\* C22: init returns false exactly when every slot was taken; afterwards no
\* two connected devices have the same slot, the slots that are taken are
\* those of the connected devices, and the slot of a device that disconnects
\* is free again.
SlotsAllocated ==
    [][/\ call' = "bt_driver_init"
            => (~bt_ret'.ok <=> \A i \in SlotIds : bt_slots[i])
       /\ \A d, e \in SlotConns :
            (d # e /\ bt_devices'[d].attached /\ bt_devices'[e].attached)
            => bt_devices'[d].driver_data # bt_devices'[e].driver_data
       /\ \A i \in SlotIds :
            bt_slots'[i] <=> \E d \in SlotConns :
                                /\ bt_devices'[d].attached
                                /\ bt_devices'[d].driver_data = i
       /\ \A d \in SlotConns :
            (call' = "bt_driver_disconnect" /\ bt_devices[d].attached
                /\ ~bt_devices'[d].attached)
            => ~bt_slots'[bt_devices[d].driver_data]]_vars

\* every slot is taken, one of them for the second time, and init has
\* returned false to one more connection
SlotsAllocatedWitness ==
    /\ call = "bt_driver_init"
    /\ bt_ret.conn >= 0
    /\ ~bt_ret.ok
    /\ \A i \in SlotIds : bt_slots[i]
    /\ \E d \in SlotConns :
          /\ bt_devices[d].attached
          /\ bt_hist[bt_devices[d].driver_data] = 2

(***************************************************************************)
(* Properties of the generic Bluetooth gamepad driver                      *)
(***************************************************************************)
\* a report that is too short for the layout in use, or, with a descriptor
\* that has a report ID, a report of another ID
GamepadMalformed(data, has_report_map) ==
    IF has_report_map
    THEN Len(data) < 8 \/ data[1] # 1
    ELSE Len(data) < 4

\* C23: a malformed report submits no event and leaves the state of the
\* device unchanged.
GamepadDropsMalformed ==
    [][(/\ call' = "gamepad_process_report"
        /\ GamepadMalformed(gamepad_rx', gamepad_data.has_report_map))
       => (submitted' = << >> /\ gamepad_data' = gamepad_data)]_vars

(***************************************************************************)
(* Properties of the GameCube adapter USB device mode                      *)
(***************************************************************************)
\* the ports of an input report that carries the last input passed for
\* each port
GcLatestReport(last) ==
    [q \in GcPorts |-> IF last[q] = << >> THEN GcNoPort
                       ELSE GcPortState(last[q][1])]

\* C24: a call of send_report that finds the IN endpoint busy returns false
\* and starts no transfer, and a report that is sent carries for every port
\* the last input passed for it, whether the call that passed it was dropped
\* or not.
GcSendDropsWhenBusy ==
    [][call' = "gc_adapter_mode_send_report" =>
         IF gc_ep.in_busy
         THEN /\ gc_ret' = 0
              /\ gc_itf' = gc_itf
              /\ gc_ep' = gc_ep
         ELSE /\ gc_ret' = 1
              /\ gc_ep'.in_busy
              /\ gc_itf'.epin_buf = <<GcLatestReport(gc_hist'.last)>>]_vars

\* a report is sent after a report for another port was dropped
GcSendDropsWhenBusyWitness ==
    /\ call = "gc_adapter_mode_send_report"
    /\ gc_ret = 1
    /\ gc_hist.dropped[0]
    /\ ~gc_hist.dropped[1]
    /\ gc_itf.epin_buf = <<GcLatestReport(gc_hist.last)>>
    /\ gc_itf.epin_buf[1][1].stick_y = 255
    /\ gc_itf.epin_buf[1][0].buttons = {"a", "l"}

\* C26: while the interface is open a transfer is queued on the OUT endpoint,
\* after the open and after every output report handled.
GcOutArmed ==
    gc_itf.ep_out # 0 => gc_ep.out_busy

\* the second output report since the open has been handled
GcOutArmedWitness ==
    /\ call = "gc_driver_xfer_cb"
    /\ gc_hist.outs = 2
    /\ gc_rx = <<17, 1, 0, 0, 0>>
    /\ gc_adapter_rumble.rumble[0] = 1
    /\ gc_ep.out_busy

\* C27: once the host has written 0x11 0x01 0x00 0x00 0x00, app_task sets
\* the rumble of player 0 to 0xFF and the rumble of every other player to 0.
GcRumblePlayer0 ==
    [][(/\ call' = "app_task"
        /\ gc_rx = <<17, 1, 0, 0, 0>>
        /\ gc_adapter_rumble.available
        /\ gc_players.count > 0)
       => /\ gc_players'.rumble[0] = 255
          /\ \A i \in GcPlayers \ {0} : gc_players'.rumble[i] = 0]_vars

(***************************************************************************)
(* Properties of the decoder of the 8BitDo Ultimate driver                 *)
(***************************************************************************)
\* C28: the report 03 08 80 80 80 80 00 00 01 00 50 gives the event with the
\* buttons DU and B1, the four sticks at 128, both triggers at 0 and the
\* battery level 80.
BitdoPressA ==
    bitdo_in = <<3, 8, 128, 128, 128, 128, 0, 0, 1, 0, 80>>
    => bitdo_out =
         <<[buttons |-> {"DU", "B1"},
            analog |-> [a \in Axes |-> IF a \in StickAxes THEN 128 ELSE 0],
            battery_level |-> 80]>>

(***************************************************************************)
(* Properties of the user button and of the tasks of the ESP32             *)
(***************************************************************************)
\* the functions of BTstack and of the Bluetooth HID layer
BtApis ==
    {"btstack_host_process", "bthid_task", "btstack_run_loop_set_timer",
     "btstack_run_loop_add_timer", "btstack_host_start_timed_scan",
     "btstack_host_disconnect_all_devices", "btstack_host_delete_all_bonds",
     "btstack_classic_get_connection_count"}

\* C25: every call of BTstack or of the Bluetooth HID layer is made by the
\* task of the run loop, none by the main task.
BtCallsFromRunLoop ==
    \A i \in 1..Len(app_calls) :
        app_calls[i].api \in BtApis => app_calls[i].task = "btstack"

\* what a sequence of calls does to the adapter
ButtonActions(calls) ==
    { calls[i].api : i \in 1..Len(calls) }
    \cap {"btstack_host_start_timed_scan", "usbd_set_mode", "usbd_reset_to_hid",
          "btstack_host_disconnect_all_devices", "btstack_host_delete_all_bonds"}

\* the action of each gesture
ButtonExpected(gesture) ==
    CASE gesture = "single" -> {"btstack_host_start_timed_scan"}
      [] gesture = "double" -> {"usbd_set_mode"}
      [] gesture = "triple" -> {"usbd_reset_to_hid"}
      [] gesture = "hold" -> {"btstack_host_disconnect_all_devices",
                              "btstack_host_delete_all_bonds"}
      [] OTHER -> {}

\* C29: a call of app_task does the action of the gesture that the user
\* has completed and nothing else: a single click starts a scan of 60 s, a
\* double click sets the next USB mode, a triple click resets to the HID
\* mode, a hold of 1 s disconnects all devices and deletes all bonds.
ButtonGestures ==
    [][call' = "app_task" =>
         /\ ButtonActions(app_calls') = ButtonExpected(button_hist'.gesture)
         /\ \A i \in 1..Len(app_calls') :
              app_calls'[i].api = "btstack_host_start_timed_scan"
              => app_calls'[i].arg = 60000]_vars

\* a double click has been completed and the USB mode is set
ButtonGesturesWitness ==
    /\ call = "app_task"
    /\ button_hist.gesture = "double"
    /\ ButtonActions(app_calls) = {"usbd_set_mode"}

(***************************************************************************)
(* Properties of the settings storage of the ESP32                         *)
(***************************************************************************)
\* C30: flash_save writes nothing itself, and flash_task writes to NVS only
\* when SAVE_DEBOUNCE_MS have passed since the last flash_save, and then it
\* writes the settings that the last flash_save passed.
FlashSaveDebounced ==
    [][/\ call' = "flash_save" => nvs_blob' = nvs_blob
       /\ (call' = "flash_task" /\ nvs_blob' # nvs_blob)
          => /\ flash_hist.since_save >= SAVE_DEBOUNCE_MS
             /\ flash_hist.last # << >>
             /\ nvs_blob'[1].settings = flash_hist.last[1]
             /\ nvs_blob'[1].magic = SETTINGS_MAGIC]_vars

\* flash_task has written the settings of a flash_save that restarted the
\* debounce of an earlier one with other settings
FlashSaveDebouncedWitness ==
    /\ call = "flash_task"
    /\ flash_hist.restarted
    /\ flash_hist.last = <<2>>
    /\ nvs_blob = <<[settings |-> 2, magic |-> SETTINGS_MAGIC, sequence |-> 1]>>
    /\ ~flash_store.save_pending

\* C31: every blob written to NVS carries the sequence number of the blob
\* before it plus one (1 for the first blob), whatever happened between the
\* two writes.
FlashSequenceConsecutive ==
    [][nvs_blob' # nvs_blob =>
         nvs_blob'[1].sequence =
           (IF nvs_blob = << >> THEN 0 ELSE nvs_blob[1].sequence) + 1]_vars

\* the rumble asked of the feedback service for the READY Wii U Pro controller
\* differs from what the driver has last sent
WiiURumblePending ==
    /\ wii_u_device
    /\ wii_u_data.state = WII_U_STATE_READY
    /\ player_idx >= 0
    /\ (fb.rumble_left > 0 \/ fb.rumble_right > 0) # wii_u_data.rumble_on

\* C32: a rumble change requested through the feedback service for a READY
\* Wii U Pro controller is eventually applied, also when the transport could
\* not send on the tick where the dirty flag was seen.
WiiURumbleApplied == WiiURumblePending ~> ~WiiURumblePending

\* C33: the Wii U Pro driver has passed an event to the router only if its
\* connect state machine is READY when the handler returns; a report taken in
\* an earlier state is absorbed without a submission.
WiiUSubmitsOnlyReady ==
    submitted # << >> => wii_u_data.state = WII_U_STATE_READY

\* the sending steps of the connect sequence after the status request: the
\* two extension writes, the extension type read, the report mode and the LED
WiiUInitSendStates ==
    {WII_U_STATE_SEND_EXT_INIT1, WII_U_STATE_SEND_EXT_INIT2,
     WII_U_STATE_READ_EXT_TYPE, WII_U_STATE_SEND_REPORT_MODE,
     WII_U_STATE_SEND_LED}

\* C34: an input data report (0x3D, 0x35, 0x34) taken during the connect
\* sequence does not carry the state machine past a sending step whose command
\* is still to be sent: no remaining init command is skipped before READY.
WiiUDataKeepsInit ==
    [][(wii_u_device /\ submitted' # << >>) =>
         \A s \in WiiUInitSendStates :
            ~(wii_u_data.state <= s /\ wii_u_data'.state > s)]_vars

\* C35: every step of the connect sequence has its own retry allowance: a
\* step is given up by timeout only after its own command has been sent
\* WII_U_INIT_MAX_RETRIES times, however many timeouts earlier steps had
\* before they succeeded.
WiiURetriesPerStep ==
    [][(WiiUTimedOut /\ wii_u_data'.state = wii_u_data.state + 1) =>
          wii_u_hist.attempts = WII_U_INIT_MAX_RETRIES]_vars

\* C36: after an extension is plugged into or removed from a READY Wiimote the
\* driver returns to READY although no init command is acknowledged, provided
\* the transport lets it send again and again; back in READY it forwards the
\* button reports to the router.
WiimoteSwapRecovers ==
    /\ (wiimote_device /\ wiimote_data.state # WII_STATE_READY)
          ~> (wiimote_data.state = WII_STATE_READY)
    /\ [][(wiimote_data.state = WII_STATE_READY /\ WiimoteIsButtons(rx'))
             => submitted' = <<wiimote_data'.event>>]_vars

\* READY again with the extension that was plugged in marked connected, and a
\* report forwarded
WiimoteSwapRecoversWitness ==
    /\ wiimote_device
    /\ wiimote_data.state = WII_STATE_READY
    /\ wiimote_data.extension_connected
    /\ WiimoteIsButtons(rx)
    /\ submitted = <<wiimote_data.event>>

\* C37: the hold time that the service measures for a per-player hotkey whose
\* combo is held, now - hold_start_ms, is the time since the checks saw that
\* hotkey's own combo become held, whatever the other hotkeys of the player do.
HotkeyOwnHoldTime ==
    \A p \in HotkeyPlayers, i \in HotkeyIds :
        LET o == hotkey_hist.holds[p][i]
        IN (HotkeyLive(p, i) /\ player_state[p].holding[i] /\ o.held)
           => time_ms - player_state[p].hold_start_ms = time_ms - o.since
\* C38: a save of the orientation mode of the Wiimote that is queued while a
\* change of the active profile is pending does not discard that change:
\* every blob written to NVS holds the active profile index that was set last
FlashWriteKeepsProfileIndex ==
    [][nvs_blob' # nvs_blob =>
         nvs_blob'[1].settings.active_profile_index =
             flash_store.runtime_settings.active_profile_index]_vars
\* the output of a mounted SInput device differs from what it was sent last
SInputChanged(d) ==
    d \in sinput_mounted /\ sinput_devices[d] # SInputWanted(sinput_fb[d])

\* C39: with all the SInput devices mounted and their tasks called in every
\* iteration of the main loop, a change of the rumble, the player LED or the
\* RGB LED of any of them is eventually sent to it
SInputNoStarvation ==
    \A d \in SInputDevs :
        (sinput_mounted = SInputDevs /\ SInputChanged(d)) ~> ~SInputChanged(d)
\* C40: a slot that is used again treats the first data report of the new
\* connection as a slot that has never been used does: when it arrives before
\* the LED step, the driver goes on with the LED step, or to READY on a 0x34
\* report
WiiUReusedSlotFirstData ==
    [][(/\ wii_u_device
        /\ wii_u_hist.happy
        /\ ~wii_u_hist.data_seen
        /\ submitted' # << >>
        /\ wii_u_data.state < WII_U_STATE_WAIT_LED_ACK)
       => wii_u_data'.state \in {WII_U_STATE_SEND_LED, WII_U_STATE_READY}]_vars

====
